---- MODULE Spec2Model ----
(***************************************************************************)
(* Model of the VisualBoyAdvance save-state codec of nrst/save/gba.py:     *)
(* VBA_SGM.__init__ (decode) and VBA_SGM.save (encode), with the schema    *)
(* tables they walk.                                                       *)
(*                                                                         *)
(* A buffer is modelled by its length and by the three stored integers     *)
(* that steer the decoder (the version, the stored irq_tricks, the stored  *)
(* cheat count).  Every other byte is kept symbolically: a bytes object is *)
(* the range [lo, hi) of the buffer it was sliced from (or, for a          *)
(* constructed record, a range of its own length), an unpacked value is    *)
(* the format and the offset it was unpacked at.  All widths and cursor    *)
(* arithmetic are exact.                                                   *)
(*                                                                         *)
(* The text conversion of nrst/common.py (bytes_to_str), which works on    *)
(* the content of the bytes, is modelled on concrete byte sequences in a   *)
(* specification of its own, SpecText.                                     *)
(***************************************************************************)
EXTENDS Integers, Sequences, FiniteSets, TLC

VARIABLES
  task,   \* what this run does: "decode" a given buffer, or "encode" a record and read it back
  data,   \* the bytes __init__ reads from the file (gopen(filename).read())
  pc,     \* the statement of __init__ that runs next
  ind,    \* __init__'s cursor `ind`
  self,   \* the attributes of the object __init__ is populating (name -> value)
  exc,    \* the exception that ended __init__, "none" while it runs
  num_cheats, \* __init__'s local num_cheats (0 before line 425)
  cheat_i,    \* the index i of the cheat loop of __init__
  cheats_at,  \* observation only: the cursor when line 424 was reached (-1 before)
  rec,    \* the object save is called on (name -> value), NoRecord when there is none
  out,    \* what save wrote to its gzip file and the exception that ended it
  summary, \* what show_summary wrote to f and the exception that ended it
  field,  \* SpecText: the fixed-width text field at the cursor (its width, its bytes)
  text,   \* SpecText: the str the text field was decoded to, or is encoded from
  dest,   \* SpecDest: the arguments filename and overwrite of save
  fs,     \* SpecDest: what the file system holds at the path `filename`
  gb      \* SpecGB: the header bytes of a GB ROM and the locals of calc_header_checksum

vars == <<task, data, pc, ind, self, exc, num_cheats, cheat_i, cheats_at, rec, out,
          summary, field, text, dest, fs, gb>>

Min(a, b) == IF a <= b THEN a ELSE b
Max(a, b) == IF a >= b THEN a ELSE b

\* ---------------------------------------------------------------- bounds
\* Versions of the inputs: -1 .. MaxVersion.
MaxVersion == 11
\* Cheat counts of the inputs that are not at the capacity: -MaxCount .. MaxCount.
MaxCount == 2
\* Stored irq_tricks values of the inputs: -MaxIrq .. MaxIrq.
MaxIrq == 1
\* SpecText: the bytes of a text field that are chosen freely (the rest is zero fill).
MaxText == 3
\* the header bytes of a ROM that are drawn freely
MaxHeaderFree == 3

\* ---------------------------------------------------------------- tables
\* src/nrst/save/gba.py:13-29  SIZE (bytes)
SIZE ==
  [ SRAM |-> 32768,
    FLASH_512 |-> 65536,
    FLASH_1M |-> 131072,
    EEPROM_512 |-> 512,
    EEPROM_8K |-> 8192,
    ROM |-> 33554432,
    BIOS |-> 16384,
    IRAM |-> 32768,
    WRAM |-> 262144,
    PRAM |-> 1024,
    VRAM |-> 131072,
    OAM |-> 1024,
    IOMEM |-> 1024,
    PIX |-> 153600,
    PIX_ALT |-> 156168 ]

\* src/nrst/save/gba.py:36-47  (NAME, SIZE IN BYTES, STRUCT FORMAT STRING)
VBA_CHEATS_DATA_STRUCT ==
  << [n |-> "code", s |-> 4, f |-> "<i"],
     [n |-> "size", s |-> 4, f |-> "<i"],
     [n |-> "status", s |-> 4, f |-> "<i"],
     [n |-> "enabled", s |-> 1, f |-> "?"],
     [n |-> "rawaddress", s |-> 4, f |-> "<I"],
     [n |-> "address", s |-> 4, f |-> "<I"],
     [n |-> "value", s |-> 4, f |-> "<I"],
     [n |-> "oldValue", s |-> 4, f |-> "<I"],
     [n |-> "codestring", s |-> 20, f |-> "None"],
     [n |-> "desc", s |-> 32, f |-> "None"] >>

\* src/nrst/save/gba.py:51-63  (NAME, SIZE IN BYTES, STRUCT FORMAT STRING)
VBA_RTC_CLOCK_DATA_STRUCT ==
  << [n |-> "byte0", s |-> 1, f |-> "B"],
     [n |-> "select", s |-> 1, f |-> "B"],
     [n |-> "enable", s |-> 1, f |-> "B"],
     [n |-> "command", s |-> 1, f |-> "B"],
     [n |-> "dataLen", s |-> 4, f |-> "<i"],
     [n |-> "bits", s |-> 4, f |-> "<i"],
     [n |-> "state", s |-> 4, f |-> "None"],
     [n |-> "data", s |-> 12, f |-> "None"],
     [n |-> "reserved", s |-> 12, f |-> "None"],
     [n |-> "reserved2", s |-> 1, f |-> "?"],
     [n |-> "reserved3", s |-> 4, f |-> "<I"] >>

\* src/nrst/save/gba.py:67-75  (NAME, SIZE IN BYTES, STRUCT FORMAT STRING)
VBA_EEPROM_SAVE_DATA_STRUCT ==
  << [n |-> "eepromMode", s |-> 4, f |-> "<i"],
     [n |-> "eepromByte", s |-> 4, f |-> "<i"],
     [n |-> "eepromBits", s |-> 4, f |-> "<i"],
     [n |-> "eepromAddress", s |-> 4, f |-> "<i"],
     [n |-> "eepromInUse", s |-> 1, f |-> "?"],
     [n |-> "eepromData", s |-> SIZE.EEPROM_512, f |-> "None"],
     [n |-> "eepromBuffer", s |-> 16, f |-> "None"] >>

\* src/nrst/save/gba.py:79-83  (NAME, SIZE IN BYTES, STRUCT FORMAT STRING)
VBA_FLASH_SAVE_DATA_1_STRUCT ==
  << [n |-> "flashState", s |-> 4, f |-> "<i"],
     [n |-> "flashReadState", s |-> 4, f |-> "<i"],
     [n |-> "flashSaveMemory", s |-> SIZE.FLASH_512, f |-> "None"] >>

\* src/nrst/save/gba.py:85-90  (NAME, SIZE IN BYTES, STRUCT FORMAT STRING)
VBA_FLASH_SAVE_DATA_2_STRUCT ==
  << [n |-> "flashState", s |-> 4, f |-> "<i"],
     [n |-> "flashReadState", s |-> 4, f |-> "<i"],
     [n |-> "flashSize", s |-> 4, f |-> "<i"],
     [n |-> "flashSaveMemory", s |-> SIZE.FLASH_1M, f |-> "None"] >>

\* src/nrst/save/gba.py:92-98  (NAME, SIZE IN BYTES, STRUCT FORMAT STRING)
VBA_FLASH_SAVE_DATA_3_STRUCT ==
  << [n |-> "flashState", s |-> 4, f |-> "<i"],
     [n |-> "flashReadState", s |-> 4, f |-> "<i"],
     [n |-> "flashSize", s |-> 4, f |-> "<i"],
     [n |-> "flashBank", s |-> 4, f |-> "<i"],
     [n |-> "flashSaveMemory", s |-> SIZE.FLASH_1M, f |-> "None"] >>

\* src/nrst/save/gba.py:102-172  (NAME, SIZE IN BYTES, STRUCT FORMAT STRING)
VBA_OLD_GBA_STATE_STRUCT ==
  << [n |-> "soundPaused", s |-> 4, f |-> "<i"],
     [n |-> "soundPlay", s |-> 4, f |-> "<i"],
     [n |-> "soundTicks", s |-> 4, f |-> "<i"],
     [n |-> "SOUND_CLOCK_TICKS", s |-> 4, f |-> "<i"],
     [n |-> "soundLevel1", s |-> 4, f |-> "<i"],
     [n |-> "soundLevel2", s |-> 4, f |-> "<i"],
     [n |-> "soundBalance", s |-> 4, f |-> "<i"],
     [n |-> "soundMasterOn", s |-> 4, f |-> "<i"],
     [n |-> "soundIndex", s |-> 4, f |-> "<i"],
     [n |-> "sound1On", s |-> 4, f |-> "<i"],
     [n |-> "sound1ATL", s |-> 4, f |-> "<i"],
     [n |-> "sound1Skip", s |-> 4, f |-> "<i"],
     [n |-> "sound1Index", s |-> 4, f |-> "<i"],
     [n |-> "sound1Continue", s |-> 4, f |-> "<i"],
     [n |-> "sound1EnvelopeVolume", s |-> 4, f |-> "<i"],
     [n |-> "sound1EnvelopeATL", s |-> 4, f |-> "<i"],
     [n |-> "sound1EnvelopeATLReload", s |-> 4, f |-> "<i"],
     [n |-> "sound1EnvelopeUpDown", s |-> 4, f |-> "<i"],
     [n |-> "sound1SweepATL", s |-> 4, f |-> "<i"],
     [n |-> "sound1SweepATLReload", s |-> 4, f |-> "<i"],
     [n |-> "sound1SweepSteps", s |-> 4, f |-> "<i"],
     [n |-> "sound1SweepUpDown", s |-> 4, f |-> "<i"],
     [n |-> "sound1SweepStep", s |-> 4, f |-> "<i"],
     [n |-> "sound2On", s |-> 4, f |-> "<i"],
     [n |-> "sound2ATL", s |-> 4, f |-> "<i"],
     [n |-> "sound2Skip", s |-> 4, f |-> "<i"],
     [n |-> "sound2Index", s |-> 4, f |-> "<i"],
     [n |-> "sound2Continue", s |-> 4, f |-> "<i"],
     [n |-> "sound2EnvelopeVolume", s |-> 4, f |-> "<i"],
     [n |-> "sound2EnvelopeATL", s |-> 4, f |-> "<i"],
     [n |-> "sound2EnvelopeATLReload", s |-> 4, f |-> "<i"],
     [n |-> "sound2EnvelopeUpDown", s |-> 4, f |-> "<i"],
     [n |-> "sound3On", s |-> 4, f |-> "<i"],
     [n |-> "sound3ATL", s |-> 4, f |-> "<i"],
     [n |-> "sound3Skip", s |-> 4, f |-> "<i"],
     [n |-> "sound3Index", s |-> 4, f |-> "<i"],
     [n |-> "sound3Continue", s |-> 4, f |-> "<i"],
     [n |-> "sound3OutputLevel", s |-> 4, f |-> "<i"],
     [n |-> "sound4On", s |-> 4, f |-> "<i"],
     [n |-> "sound4ATL", s |-> 4, f |-> "<i"],
     [n |-> "sound4Skip", s |-> 4, f |-> "<i"],
     [n |-> "sound4Index", s |-> 4, f |-> "<i"],
     [n |-> "sound4Clock", s |-> 4, f |-> "<i"],
     [n |-> "sound4ShiftRight", s |-> 4, f |-> "<i"],
     [n |-> "sound4ShiftSkip", s |-> 4, f |-> "<i"],
     [n |-> "sound4ShiftIndex", s |-> 4, f |-> "<i"],
     [n |-> "sound4NSteps", s |-> 4, f |-> "<i"],
     [n |-> "sound4CountDown", s |-> 4, f |-> "<i"],
     [n |-> "sound4Continue", s |-> 4, f |-> "<i"],
     [n |-> "sound4EnvelopeVolume", s |-> 4, f |-> "<i"],
     [n |-> "sound4EnvelopeATL", s |-> 4, f |-> "<i"],
     [n |-> "sound4EnvelopeATLReload", s |-> 4, f |-> "<i"],
     [n |-> "sound4EnvelopeUpDown", s |-> 4, f |-> "<i"],
     [n |-> "soundEnableFlag", s |-> 4, f |-> "<i"],
     [n |-> "soundControl", s |-> 4, f |-> "<i"],
     [n |-> "pcm[0].readIndex", s |-> 4, f |-> "<i"],
     [n |-> "pcm[0].count", s |-> 4, f |-> "<i"],
     [n |-> "pcm[0].writeIndex", s |-> 4, f |-> "<i"],
     [n |-> "soundDSAEnabled", s |-> 1, f |-> "B"],
     [n |-> "soundDSATimer", s |-> 4, f |-> "<i"],
     [n |-> "pcm[0].fifo", s |-> 32, f |-> "None"],
     [n |-> "state.soundDSAValue", s |-> 1, f |-> "B"],
     [n |-> "pcm[1].readIndex", s |-> 4, f |-> "<i"],
     [n |-> "pcm[1].count", s |-> 4, f |-> "<i"],
     [n |-> "pcm[1].writeIndex", s |-> 4, f |-> "<i"],
     [n |-> "soundDSBEnabled", s |-> 4, f |-> "<i"],
     [n |-> "soundDSBTimer", s |-> 4, f |-> "<i"],
     [n |-> "pcm[1].fifo", s |-> 32, f |-> "None"],
     [n |-> "state.soundDSBValue", s |-> 4, f |-> "<i"] >>

\* src/nrst/save/gba.py:176-181  (NAME, SIZE IN BYTES, STRUCT FORMAT STRING)
VBA_OLD_GBA_STATE2_STRUCT ==
  << [n |-> "state.apu.regs", s |-> 32, f |-> "None"],
     [n |-> "sound3Bank", s |-> 4, f |-> "<i"],
     [n |-> "sound3DataSize", s |-> 4, f |-> "<i"],
     [n |-> "sound3ForcedOutput", s |-> 4, f |-> "<i"] >>

\* src/nrst/save/gba.py:185-218  (NAME, SIZE IN BYTES, STRUCT FORMAT STRING)
VBA_GBA_STATE_STRUCT ==
  << [n |-> "pcm[0].readIndex", s |-> 4, f |-> "<i"],
     [n |-> "pcm[0].count", s |-> 4, f |-> "<i"],
     [n |-> "pcm[0].writeIndex", s |-> 4, f |-> "<i"],
     [n |-> "pcm[0].fifo", s |-> 32, f |-> "None"],
     [n |-> "pcm[0].dac", s |-> 4, f |-> "<i"],
     [n |-> "pcm[0].room_for_expansion", s |-> 16, f |-> "None"],
     [n |-> "pcm[1].readIndex", s |-> 4, f |-> "<i"],
     [n |-> "pcm[1].count", s |-> 4, f |-> "<i"],
     [n |-> "pcm[1].writeIndex", s |-> 4, f |-> "<i"],
     [n |-> "pcm[1].fifo", s |-> 32, f |-> "None"],
     [n |-> "pcm[1].dac", s |-> 4, f |-> "<i"],
     [n |-> "pcm[1].room_for_expansion", s |-> 16, f |-> "None"],
     [n |-> "state.apu.regs", s |-> 64, f |-> "None"],
     [n |-> "state.apu.frame_time", s |-> 4, f |-> "<i"],
     [n |-> "state.apu.frame_phase", s |-> 4, f |-> "<i"],
     [n |-> "state.apu.sweep_freq", s |-> 4, f |-> "<i"],
     [n |-> "state.apu.sweep_delay", s |-> 4, f |-> "<i"],
     [n |-> "state.apu.sweep_enabled", s |-> 4, f |-> "<i"],
     [n |-> "state.apu.sweep_neg", s |-> 4, f |-> "<i"],
     [n |-> "state.apu.noise_divider", s |-> 4, f |-> "<i"],
     [n |-> "state.apu.wave_buf", s |-> 4, f |-> "<i"],
     [n |-> "state.apu.delay", s |-> 16, f |-> "None"],
     [n |-> "state.apu.length_ctr", s |-> 16, f |-> "None"],
     [n |-> "state.apu.phase", s |-> 16, f |-> "None"],
     [n |-> "state.apu.enabled", s |-> 16, f |-> "None"],
     [n |-> "state.apu.env_delay", s |-> 12, f |-> "None"],
     [n |-> "state.apu.env_volume", s |-> 12, f |-> "None"],
     [n |-> "state.apu.env_enabled", s |-> 12, f |-> "None"],
     [n |-> "state.apu.room_for_expansion", s |-> 52, f |-> "None"],
     [n |-> "soundEnableFlag", s |-> 4, f |-> "<i"],
     [n |-> "soundTicks", s |-> 4, f |-> "<i"],
     [n |-> "emulator.room_for_expansion", s |-> 56, f |-> "None"] >>

\* src/nrst/save/gba.py:222-338  (NAME, SIZE IN BYTES, STRUCT FORMAT STRING)
VBA_SGM_SAVE_GAME_STRUCT ==
  << [n |-> "DISPCNT", s |-> 2, f |-> "<H"],
     [n |-> "DISPSTAT", s |-> 2, f |-> "<H"],
     [n |-> "VCOUNT", s |-> 2, f |-> "<H"],
     [n |-> "BG0CNT", s |-> 2, f |-> "<H"],
     [n |-> "BG1CNT", s |-> 2, f |-> "<H"],
     [n |-> "BG2CNT", s |-> 2, f |-> "<H"],
     [n |-> "BG3CNT", s |-> 2, f |-> "<H"],
     [n |-> "BG0HOFS", s |-> 2, f |-> "<H"],
     [n |-> "BG0VOFS", s |-> 2, f |-> "<H"],
     [n |-> "BG1HOFS", s |-> 2, f |-> "<H"],
     [n |-> "BG1VOFS", s |-> 2, f |-> "<H"],
     [n |-> "BG2HOFS", s |-> 2, f |-> "<H"],
     [n |-> "BG2VOFS", s |-> 2, f |-> "<H"],
     [n |-> "BG3HOFS", s |-> 2, f |-> "<H"],
     [n |-> "BG3VOFS", s |-> 2, f |-> "<H"],
     [n |-> "BG2PA", s |-> 2, f |-> "<H"],
     [n |-> "BG2PB", s |-> 2, f |-> "<H"],
     [n |-> "BG2PC", s |-> 2, f |-> "<H"],
     [n |-> "BG2PD", s |-> 2, f |-> "<H"],
     [n |-> "BG2X_L", s |-> 2, f |-> "<H"],
     [n |-> "BG2X_H", s |-> 2, f |-> "<H"],
     [n |-> "BG2Y_L", s |-> 2, f |-> "<H"],
     [n |-> "BG2Y_H", s |-> 2, f |-> "<H"],
     [n |-> "BG3PA", s |-> 2, f |-> "<H"],
     [n |-> "BG3PB", s |-> 2, f |-> "<H"],
     [n |-> "BG3PC", s |-> 2, f |-> "<H"],
     [n |-> "BG3PD", s |-> 2, f |-> "<H"],
     [n |-> "BG3X_L", s |-> 2, f |-> "<H"],
     [n |-> "BG3X_H", s |-> 2, f |-> "<H"],
     [n |-> "BG3Y_L", s |-> 2, f |-> "<H"],
     [n |-> "BG3Y_H", s |-> 2, f |-> "<H"],
     [n |-> "WIN0H", s |-> 2, f |-> "<H"],
     [n |-> "WIN1H", s |-> 2, f |-> "<H"],
     [n |-> "WIN0V", s |-> 2, f |-> "<H"],
     [n |-> "WIN1V", s |-> 2, f |-> "<H"],
     [n |-> "WININ", s |-> 2, f |-> "<H"],
     [n |-> "WINOUT", s |-> 2, f |-> "<H"],
     [n |-> "MOSAIC", s |-> 2, f |-> "<H"],
     [n |-> "BLDMOD", s |-> 2, f |-> "<H"],
     [n |-> "COLEV", s |-> 2, f |-> "<H"],
     [n |-> "COLY", s |-> 2, f |-> "<H"],
     [n |-> "DM0SAD_L", s |-> 2, f |-> "<H"],
     [n |-> "DM0SAD_H", s |-> 2, f |-> "<H"],
     [n |-> "DM0DAD_L", s |-> 2, f |-> "<H"],
     [n |-> "DM0DAD_H", s |-> 2, f |-> "<H"],
     [n |-> "DM0CNT_L", s |-> 2, f |-> "<H"],
     [n |-> "DM0CNT_H", s |-> 2, f |-> "<H"],
     [n |-> "DM1SAD_L", s |-> 2, f |-> "<H"],
     [n |-> "DM1SAD_H", s |-> 2, f |-> "<H"],
     [n |-> "DM1DAD_L", s |-> 2, f |-> "<H"],
     [n |-> "DM1DAD_H", s |-> 2, f |-> "<H"],
     [n |-> "DM1CNT_L", s |-> 2, f |-> "<H"],
     [n |-> "DM1CNT_H", s |-> 2, f |-> "<H"],
     [n |-> "DM2SAD_L", s |-> 2, f |-> "<H"],
     [n |-> "DM2SAD_H", s |-> 2, f |-> "<H"],
     [n |-> "DM2DAD_L", s |-> 2, f |-> "<H"],
     [n |-> "DM2DAD_H", s |-> 2, f |-> "<H"],
     [n |-> "DM2CNT_L", s |-> 2, f |-> "<H"],
     [n |-> "DM2CNT_H", s |-> 2, f |-> "<H"],
     [n |-> "DM3SAD_L", s |-> 2, f |-> "<H"],
     [n |-> "DM3SAD_H", s |-> 2, f |-> "<H"],
     [n |-> "DM3DAD_L", s |-> 2, f |-> "<H"],
     [n |-> "DM3DAD_H", s |-> 2, f |-> "<H"],
     [n |-> "DM3CNT_L", s |-> 2, f |-> "<H"],
     [n |-> "DM3CNT_H", s |-> 2, f |-> "<H"],
     [n |-> "TM0D", s |-> 2, f |-> "<H"],
     [n |-> "TM0CNT", s |-> 2, f |-> "<H"],
     [n |-> "TM1D", s |-> 2, f |-> "<H"],
     [n |-> "TM1CNT", s |-> 2, f |-> "<H"],
     [n |-> "TM2D", s |-> 2, f |-> "<H"],
     [n |-> "TM2CNT", s |-> 2, f |-> "<H"],
     [n |-> "TM3D", s |-> 2, f |-> "<H"],
     [n |-> "TM3CNT", s |-> 2, f |-> "<H"],
     [n |-> "P1", s |-> 2, f |-> "<H"],
     [n |-> "IE", s |-> 2, f |-> "<H"],
     [n |-> "IF", s |-> 2, f |-> "<H"],
     [n |-> "IME", s |-> 2, f |-> "<H"],
     [n |-> "holdState", s |-> 1, f |-> "?"],
     [n |-> "holdType", s |-> 4, f |-> "<i"],
     [n |-> "lcdTicks", s |-> 4, f |-> "<i"],
     [n |-> "timer0On", s |-> 1, f |-> "?"],
     [n |-> "timer0Ticks", s |-> 4, f |-> "<i"],
     [n |-> "timer0Reload", s |-> 4, f |-> "<i"],
     [n |-> "timer0ClockReload", s |-> 4, f |-> "<i"],
     [n |-> "timer1On", s |-> 1, f |-> "?"],
     [n |-> "timer1Ticks", s |-> 4, f |-> "<i"],
     [n |-> "timer1Reload", s |-> 4, f |-> "<i"],
     [n |-> "timer1ClockReload", s |-> 4, f |-> "<i"],
     [n |-> "timer2On", s |-> 1, f |-> "?"],
     [n |-> "timer2Ticks", s |-> 4, f |-> "<i"],
     [n |-> "timer2Reload", s |-> 4, f |-> "<i"],
     [n |-> "timer2ClockReload", s |-> 4, f |-> "<i"],
     [n |-> "timer3On", s |-> 1, f |-> "?"],
     [n |-> "timer3Ticks", s |-> 4, f |-> "<i"],
     [n |-> "timer3Reload", s |-> 4, f |-> "<i"],
     [n |-> "timer3ClockReload", s |-> 4, f |-> "<i"],
     [n |-> "dma0Source", s |-> 4, f |-> "<I"],
     [n |-> "dma0Dest", s |-> 4, f |-> "<I"],
     [n |-> "dma1Source", s |-> 4, f |-> "<I"],
     [n |-> "dma1Dest", s |-> 4, f |-> "<I"],
     [n |-> "dma2Source", s |-> 4, f |-> "<I"],
     [n |-> "dma2Dest", s |-> 4, f |-> "<I"],
     [n |-> "dma3Source", s |-> 4, f |-> "<I"],
     [n |-> "dma3Dest", s |-> 4, f |-> "<I"],
     [n |-> "fxOn", s |-> 1, f |-> "?"],
     [n |-> "windowOn", s |-> 1, f |-> "?"],
     [n |-> "N_FLAG", s |-> 1, f |-> "?"],
     [n |-> "C_FLAG", s |-> 1, f |-> "?"],
     [n |-> "Z_FLAG", s |-> 1, f |-> "?"],
     [n |-> "V_FLAG", s |-> 1, f |-> "?"],
     [n |-> "armState", s |-> 1, f |-> "?"],
     [n |-> "armIrqEnable", s |-> 1, f |-> "?"],
     [n |-> "armNextPC", s |-> 4, f |-> "<I"],
     [n |-> "armMode", s |-> 4, f |-> "<i"],
     [n |-> "coreOptions.saveType", s |-> 4, f |-> "<i"] >>

\* src/nrst/save/gba.py:32
VBA_MAX_CHEATS == 16384

\* ---------------------------------------------------------------- values
\* data[a:a+s]: slicing never raises; a slice that runs past the end of the
\* buffer is short or empty.
Slice(d, a, s) == [kind |-> "bytes", lo |-> Min(a, d.len), hi |-> Min(a + s, d.len)]

\* len(b) of a bytes object
BytesLen(b) == b.hi - b.lo

\* unpack(f, data[a:a+s])[0]: struct.error unless the slice holds the s bytes
\* the format needs; the value is kept as the format and the place it was read.
Short(d, a, s) == BytesLen(Slice(d, a, s)) # s
Unpacked(f, a) == [kind |-> "val", fmt |-> f, at |-> a]

\* common.bytes_to_str(data[a:a+s]): the printable bytes of the slice, as text
DecodedText(d, a, s) == [kind |-> "text", of |-> Slice(d, a, s)]

\* setting an attribute / a dict key
Set(f, k, v) == [x \in DOMAIN f \cup {k} |-> IF x = k THEN v ELSE f[x]]
Empty == [x \in {} |-> 0]

RECURSIVE SumSizes(_, _, _)
\* the sum of the SIZE column (field s) of rows lo .. hi of a table, by halves
SumSizes(struct, lo, hi) ==
  IF lo > hi THEN 0
  ELSE IF lo = hi THEN struct[lo].s
  ELSE LET mid == (lo + hi) \div 2
       IN  SumSizes(struct, lo, mid) + SumSizes(struct, mid + 1, hi)

\* the sum of the SIZE column of the first k rows of a table
StructSize(struct, k) == SumSizes(struct, 1, k)

\* the least element of a non-empty set of integers
Least(S) == CHOOSE x \in S : \A y \in S : x <= y

\* ---------------------------------------------------------------- decode
\* The loop `for n, s, f in STRUCT:` of __init__, cursor at `at`, dict `acc`
\* so far:  f None  -> dict[n] = data[ind:ind+s]; ind += s
\*          f "str" -> dict[n] = bytes_to_str(data[ind:ind+s]); ind += s
\*          else    -> dict[n] = unpack(f, data[ind:ind+s])[0]; ind += s
\* Row k is read at `at` plus the sizes of the rows before it.  The first
\* unpack of a short slice raises and leaves the cursor and the dict as they
\* are; the rows before it have been stored.
ReadFields(struct, d, at, acc) ==
  LET off(k) == at + StructSize(struct, k - 1)
      fails == { k \in 1..Len(struct) :
                   struct[k].f \notin {"None", "str"} /\ Short(d, off(k), struct[k].s) }
      stop == IF fails = {} THEN Len(struct) + 1 ELSE Least(fails)
      read == { struct[k].n : k \in 1..(stop - 1) }
      row(n) == CHOOSE k \in 1..(stop - 1) : struct[k].n = n
      value(k) == IF struct[k].f = "None" THEN Slice(d, off(k), struct[k].s)
                  ELSE IF struct[k].f = "str" THEN DecodedText(d, off(k), struct[k].s)
                  ELSE Unpacked(struct[k].f, off(k))
  IN  [ind |-> off(stop),
       exc |-> IF fails = {} THEN "none" ELSE "struct.error",
       dict |-> [n \in DOMAIN acc \cup read |-> IF n \in read THEN value(row(n)) ELSE acc[n]]]

\* gba.py:347-348  data = gopen(filename).read(); ind = 0; save_game_version
ReadVersion(d, at, s) ==
  IF Short(d, at, 4) THEN [ind |-> at, exc |-> "struct.error", self |-> s]
  ELSE [ind |-> at + 4, exc |-> "none", self |-> Set(s, "save_game_version", d.version)]

\* gba.py:349  rom_name
ReadRomName(d, at, s) ==
  [ind |-> at + 16, exc |-> "none", self |-> Set(s, "rom_name", DecodedText(d, at, 16))]

\* gba.py:350  use_bios
ReadUseBios(d, at, s) ==
  IF Short(d, at, 4) THEN [ind |-> at, exc |-> "struct.error", self |-> s]
  ELSE [ind |-> at + 4, exc |-> "none", self |-> Set(s, "use_bios", Unpacked("<i", at))]

\* gba.py:351-353  45 times self.reg.append(data[ind:ind+4]); the loop body
\* does not advance ind.
ReadReg(d, at, s) ==
  [ind |-> at, exc |-> "none", self |-> Set(s, "reg", [i \in 1..45 |-> Slice(d, at, 4)])]

\* gba.py:354-356  save_game_struct
ReadSaveGameStruct(d, at, s) ==
  LET r == ReadFields(VBA_SGM_SAVE_GAME_STRUCT, d, at, Empty)
  IN  [ind |-> r.ind, exc |-> r.exc, self |-> Set(s, "save_game_struct", r.dict)]

\* ReadStopState that also renumbers an old save state: below version 3 it
\* stores version 3 in save_game_version
ReadStopState_Renumber(d, at, s) ==
  IF s["save_game_version"] < 3
    THEN [ind |-> at, exc |-> "none",
          self |-> Set(Set(s, "stop_state", FALSE), "save_game_version", 3)]
  ELSE IF Short(d, at, 4) THEN [ind |-> at, exc |-> "struct.error", self |-> s]
  ELSE [ind |-> at + 4, exc |-> "none", self |-> Set(s, "stop_state", Unpacked("<i", at))]

\* gba.py:357-360  stop_state
ReadStopState(d, at, s) ==
  IF s["save_game_version"] < 3
    THEN [ind |-> at, exc |-> "none", self |-> Set(s, "stop_state", FALSE)]
  ELSE IF Short(d, at, 4) THEN [ind |-> at, exc |-> "struct.error", self |-> s]
  ELSE [ind |-> at + 4, exc |-> "none", self |-> Set(s, "stop_state", Unpacked("<i", at))]

\* DeriveIntState without line 369: the stored value is kept when it is <= 0
DeriveIntState_NoReset(s, raw) ==
  IF raw > 0
    THEN Set(Set(s, "irq_tricks", raw), "int_state", TRUE)
    ELSE Set(Set(s, "irq_tricks", raw), "int_state", FALSE)

\* gba.py:366-370  the derived pair, from the irq_tricks just read
DeriveIntState(s, raw) ==
  IF raw > 0
    THEN Set(Set(s, "irq_tricks", raw), "int_state", TRUE)
    ELSE Set(Set(s, "irq_tricks", 0), "int_state", FALSE)

\* gba.py:361-370  irq_tricks and int_state
ReadIrqTricks(d, at, s) ==
  IF s["save_game_version"] < 4
    THEN [ind |-> at, exc |-> "none",
          self |-> Set(Set(s, "irq_tricks", 0), "int_state", FALSE)]
  ELSE IF Short(d, at, 4) THEN [ind |-> at, exc |-> "struct.error", self |-> s]
  ELSE [ind |-> at + 4, exc |-> "none", self |-> DeriveIntState(s, d.irq_tricks)]

\* gba.py:371-377  the seven RAM blobs, in the order they are sliced
RamBlobs ==
  << [n |-> "iram",  s |-> SIZE.IRAM,  f |-> "None"],
     [n |-> "pram",  s |-> SIZE.PRAM,  f |-> "None"],
     [n |-> "wram",  s |-> SIZE.WRAM,  f |-> "None"],
     [n |-> "vram",  s |-> SIZE.VRAM,  f |-> "None"],
     [n |-> "oam",   s |-> SIZE.OAM,   f |-> "None"],
     [n |-> "pix",   s |-> SIZE.PIX,   f |-> "None"],
     [n |-> "iomem", s |-> SIZE.IOMEM, f |-> "None"] >>

ReadRam(d, at, s) ==
  LET r == ReadFields(RamBlobs, d, at, s)
  IN  [ind |-> r.ind, exc |-> r.exc, self |-> r.dict]

\* gba.py:378-383  eeprom_save_data
ReadEepromSaveData(d, at, s) ==
  LET r == ReadFields(VBA_EEPROM_SAVE_DATA_STRUCT, d, at, Empty)
  IN  [ind |-> r.ind, exc |-> r.exc, self |-> Set(s, "eeprom_save_data", r.dict)]

\* gba.py:384-388  eeprom_size, eeprom_data
ReadEeprom(d, at, s) ==
  IF s["save_game_version"] < 3
    THEN [ind |-> at, exc |-> "none", self |-> Set(s, "eeprom_size", SIZE.EEPROM_512)]
  ELSE IF Short(d, at, 4) THEN [ind |-> at, exc |-> "struct.error", self |-> s]
  ELSE [ind |-> at + 4 + SIZE.EEPROM_8K, exc |-> "none",
        self |-> Set(Set(s, "eeprom_size", Unpacked("<i", at)),
                     "eeprom_data", Slice(d, at + 4, SIZE.EEPROM_8K))]

\* FlashStruct with the first limit one too high: version 5 gets the 512K table
FlashStruct_Late(v) ==
  IF v < 6 THEN VBA_FLASH_SAVE_DATA_1_STRUCT
  ELSE IF v < 7 THEN VBA_FLASH_SAVE_DATA_2_STRUCT
  ELSE VBA_FLASH_SAVE_DATA_3_STRUCT

\* gba.py:389-394 and 490-495  the flash table of a version
FlashStruct(v) ==
  IF v < 5 THEN VBA_FLASH_SAVE_DATA_1_STRUCT
  ELSE IF v < 7 THEN VBA_FLASH_SAVE_DATA_2_STRUCT
  ELSE VBA_FLASH_SAVE_DATA_3_STRUCT

\* gba.py:389-400  flash_save_data
ReadFlash(d, at, s) ==
  LET r == ReadFields(FlashStruct(s["save_game_version"]), d, at, Empty)
  IN  [ind |-> r.ind, exc |-> r.exc, self |-> Set(s, "flash_save_data", r.dict)]

\* the sound state with the current layout read from version 7 on
ReadSound_From7(d, at, s) ==
  IF s["save_game_version"] > 6
    THEN LET r == ReadFields(VBA_GBA_STATE_STRUCT, d, at, Empty)
         IN  [ind |-> r.ind, exc |-> r.exc, self |-> Set(s, "gba_state", r.dict)]
    ELSE LET r == ReadFields(VBA_OLD_GBA_STATE_STRUCT, d, at, Empty)
         IN  IF r.exc # "none"
               THEN [ind |-> r.ind, exc |-> r.exc, self |-> Set(s, "old_gba_state", r.dict)]
               ELSE [ind |-> r.ind + 5880, exc |-> "NameError",
                     self |-> Set(s, "old_gba_state", r.dict)]

\* gba.py:401-423  the sound state.  Above version 9 the current layout is
\* read.  Otherwise the old layout is read, 5880 bytes are skipped, and line 416
\* evaluates the name `version`, which nothing defines: NameError.  Lines
\* 417-423 never run.
ReadSound(d, at, s) ==
  IF s["save_game_version"] > 9
    THEN LET r == ReadFields(VBA_GBA_STATE_STRUCT, d, at, Empty)
         IN  [ind |-> r.ind, exc |-> r.exc, self |-> Set(s, "gba_state", r.dict)]
    ELSE LET r == ReadFields(VBA_OLD_GBA_STATE_STRUCT, d, at, Empty)
         IN  IF r.exc # "none"
               THEN [ind |-> r.ind, exc |-> r.exc, self |-> Set(s, "old_gba_state", r.dict)]
               ELSE [ind |-> r.ind + 5880, exc |-> "NameError",
                     self |-> Set(s, "old_gba_state", r.dict)]

\* gba.py:424-426  the cheat count: num_cheats = min(VBA_MAX_CHEATS, stored count)
ClampCount(raw) == Min(VBA_MAX_CHEATS, raw)

\* [None]*num_cheats: a list of num_cheats slots, empty for num_cheats <= 0.
\* The list is kept as its length, the number of slots filled so far and the
\* entry stored last (entries differ only in the offsets they were read at).
NewList(n) == [alloc |-> Max(0, n), filled |-> 0, entry |-> Empty]

\* gba.py:428-444  the fields of one cheat entry at version v, in reading order
CheatShape(v) ==
  << [n |-> "code",   s |-> 4, f |-> "<i"],
     [n |-> "size",   s |-> 4, f |-> "<i"],
     [n |-> "status", s |-> 4, f |-> "<i"] >>
  \o (IF v < 9 THEN << [n |-> "enabled", s |-> 4, f |-> "<i"] >>
               ELSE << [n |-> "enabled", s |-> 1, f |-> "?"] >>)
  \o (IF v >= 9 THEN << [n |-> "rawaddress", s |-> 4, f |-> "<I"] >> ELSE << >>)
  \o << [n |-> "address",    s |-> 4,  f |-> "<I"],
        [n |-> "value",      s |-> 4,  f |-> "<I"],
        [n |-> "oldValue",   s |-> 4,  f |-> "<I"],
        [n |-> "codestring", s |-> 20, f |-> "str"],
        [n |-> "desc",       s |-> 32, f |-> "str"] >>

\* gba.py:428-445  one pass of the loop body: the entry read at `at`
ReadCheat(d, at, v) ==
  LET r == ReadFields(CheatShape(v), d, at, Empty)
      c == IF v < 9 /\ "address" \in DOMAIN r.dict
             THEN Set(r.dict, "rawaddress", r.dict["address"])   \* line 440
             ELSE r.dict
  IN  [ind |-> r.ind, exc |-> r.exc, cheat |-> c]

\* gba.py:446-447  the padding skipped after the entries
PadSkip(v, n) == IF v >= 9 THEN (VBA_MAX_CHEATS - n) * 81 ELSE 0

\* gba.py:448-454  rtc_clock_data
ReadRtc(d, at, s) ==
  IF s["save_game_version"] > 6
    THEN LET r == ReadFields(VBA_RTC_CLOCK_DATA_STRUCT, d, at, Empty)
         IN  [ind |-> r.ind, exc |-> r.exc, self |-> Set(s, "rtc_clock_data", r.dict)]
    ELSE [ind |-> at, exc |-> "none", self |-> s]

\* ---------------------------------------------------------------- encode
\* out.write(b) of s bytes for field n, unless an exception already ended save
Put(acc, n, s) ==
  IF acc.exc # "none" THEN acc
  ELSE [chunks |-> Append(acc.chunks, [n |-> n, s |-> s]), exc |-> "none"]

\* raising e, unless an exception already ended save
Throw(acc, e) == IF acc.exc # "none" THEN acc ELSE [acc EXCEPT !.exc = e]

\* self.<a> of an object without the attribute raises AttributeError
NeedAttr(acc, r, a) == IF a \in DOMAIN r THEN acc ELSE Throw(acc, "AttributeError")

\* bytes([ord(c) for c in text] + [0]*(w-len(text))): w bytes, or len(text) if longer
TextWidth(t, w) == IF t.kind = "lit" THEN Max(w, Len(t.chars)) ELSE w

\* gba.py:467-468  for reg_chunk in self.reg: out.write(reg_chunk)
WriteReg(reg, acc) ==
  IF acc.exc # "none" THEN acc
  ELSE [chunks |-> acc.chunks \o [k \in 1..Len(reg) |-> [n |-> "reg", s |-> BytesLen(reg[k])]],
        exc |-> "none"]

\* The loop `for n, s, f in STRUCT:` of save:  f None -> out.write(dict[n])
\*                                             else   -> out.write(pack(f, dict[n]))
\* The first row whose key the dict lacks raises KeyError; the rows before it
\* have been written.
WriteFields(struct, dict, acc) ==
  LET missing == { k \in 1..Len(struct) : struct[k].n \notin DOMAIN dict }
      stop == IF missing = {} THEN Len(struct) + 1 ELSE Least(missing)
      width(k) == IF struct[k].f = "None" THEN BytesLen(dict[struct[k].n]) ELSE struct[k].s
  IN  IF acc.exc # "none" THEN acc
      ELSE [chunks |-> acc.chunks \o [k \in 1..(stop - 1) |-> [n |-> struct[k].n, s |-> width(k)]],
            exc |-> IF missing = {} THEN "none" ELSE "KeyError"]

\* out.write(self.<a>) of a bytes attribute
WriteBlob(acc, r, a) ==
  IF acc.exc # "none" THEN acc
  ELSE IF a \notin DOMAIN r THEN Throw(acc, "AttributeError")
  ELSE Put(acc, a, BytesLen(r[a]))

\* the loop over a dict attribute of the object
WriteDict(acc, r, a, struct) ==
  IF acc.exc # "none" THEN acc
  ELSE IF a \notin DOMAIN r THEN Throw(acc, "AttributeError")
  ELSE WriteFields(struct, r[a], acc)

\* gba.py:464-470  version, title, use_bios, registers, hardware registers
WriteHeader(r) ==
  LET a0 == [chunks |-> << >>, exc |-> "none"]
      a1 == Put(NeedAttr(a0, r, "save_game_version"), "save_game_version", 4)
      a2 == IF a1.exc # "none" THEN a1
            ELSE IF "rom_name" \notin DOMAIN r THEN Throw(a1, "AttributeError")
            ELSE Put(a1, "rom_name", TextWidth(r["rom_name"], 16))
      a3 == Put(NeedAttr(a2, r, "use_bios"), "use_bios", 4)
      a4 == IF a3.exc # "none" THEN a3
            ELSE IF "reg" \notin DOMAIN r THEN Throw(a3, "AttributeError")
            ELSE WriteReg(r["reg"], a3)
  IN  WriteDict(a4, r, "save_game_struct", VBA_SGM_SAVE_GAME_STRUCT)

\* stop_state and irq_tricks written under one gate (version >= 3)
WriteGated_FromThree(acc, r, v) ==
  LET a1 == IF v >= 3 THEN Put(NeedAttr(acc, r, "stop_state"), "stop_state", 4) ELSE acc
  IN  IF v >= 3 THEN Put(NeedAttr(a1, r, "irq_tricks"), "irq_tricks", 4) ELSE a1

\* gba.py:471-474  stop_state (version >= 3) and irq_tricks (version >= 4)
WriteGated(acc, r, v) ==
  LET a1 == IF v >= 3 THEN Put(NeedAttr(acc, r, "stop_state"), "stop_state", 4) ELSE acc
  IN  IF v >= 4 THEN Put(NeedAttr(a1, r, "irq_tricks"), "irq_tricks", 4) ELSE a1

\* gba.py:475-481  the seven RAM blobs
WriteRam(acc, r) ==
  WriteBlob(WriteBlob(WriteBlob(WriteBlob(WriteBlob(WriteBlob(WriteBlob(acc,
    r, "iram"), r, "pram"), r, "wram"), r, "vram"), r, "oam"), r, "pix"), r, "iomem")

\* gba.py:482-489  eeprom_save_data, then eeprom_size and eeprom_data (version >= 3)
WriteEeprom(acc, r, v) ==
  LET a1 == WriteDict(acc, r, "eeprom_save_data", VBA_EEPROM_SAVE_DATA_STRUCT)
  IN  IF v >= 3
        THEN WriteBlob(Put(NeedAttr(a1, r, "eeprom_size"), "eeprom_size", 4), r, "eeprom_data")
        ELSE a1

\* gba.py:490-500  flash_save_data
WriteFlash(acc, r, v) == WriteDict(acc, r, "flash_save_data", FlashStruct(v))

\* gba.py:502-517  the cheat loop.  range(len(self.cheats_list)) needs the
\* attribute; the first statement of the body, cheat = cheats_list[i], reads a
\* name that nothing defines, so the first pass raises NameError before it
\* writes.  (The sound state and the cheat count are written nowhere: line 501.)
WriteCheats(acc, r) ==
  IF acc.exc # "none" THEN acc
  ELSE IF "cheats_list" \notin DOMAIN r THEN Throw(acc, "AttributeError")
  ELSE IF r["cheats_list"].alloc > 0 THEN Throw(acc, "NameError")
  ELSE acc

\* gba.py:518-519  bytes([0]*(81*(VBA_MAX_CHEATS-len(self.cheats_list))))
WritePadding(acc, r, v) ==
  IF acc.exc # "none" \/ v < 9 THEN acc
  ELSE Put(acc, "padding", Max(0, 81 * (VBA_MAX_CHEATS - r["cheats_list"].alloc)))

\* gba.py:520-524  rtc_clock_data, for every version
WriteRtc(acc, r) == WriteDict(acc, r, "rtc_clock_data", VBA_RTC_CLOCK_DATA_STRUCT)

\* gba.py:464-525  the writes of save on object r, in order, up to the first
\* exception: the chunks that reached the file and the exception, if any
SaveOp(r) ==
  LET v  == r["save_game_version"]
      a1 == WriteHeader(r)
      a2 == WriteGated(a1, r, v)
      a3 == WriteRam(a2, r)
      a4 == WriteEeprom(a3, r, v)
      a5 == WriteFlash(a4, r, v)
      a6 == WriteCheats(a5, r)
      a7 == WritePadding(a6, r, v)
  IN  WriteRtc(a7, r)

\* the number of bytes save wrote
Written(o) == SumSizes(o.chunks, 1, Len(o.chunks))

\* ---------------------------------------------------------------- show_summary
\* f.write of k lines, unless an exception already ended show_summary
Say(acc, k) == IF acc.exc # "none" THEN acc ELSE [acc EXCEPT !.lines = @ + k]

\* a dict attribute: the line with its length, then one line per row of the
\* table; the first row whose key the dict lacks raises KeyError
SayDict(acc, r, a, struct) ==
  LET missing == { k \in 1..Len(struct) : struct[k].n \notin DOMAIN r[a] }
  IN  IF acc.exc # "none" THEN acc
      ELSE IF a \notin DOMAIN r THEN Throw(acc, "AttributeError")
      ELSE IF missing = {} THEN Say(acc, 1 + Len(struct))
      ELSE Throw(Say(acc, Least(missing)), "KeyError")

\* gba.py:528-577  show_summary(f): the lines written to f, in order, up to
\* the first exception.  It reads the attributes and assigns none.
ShowSummaryOp(r) ==
  LET a0 == [lines |-> 0, exc |-> "none"]
      a1 == Say(NeedAttr(a0, r, "save_game_version"), 1)
      a2 == Say(NeedAttr(a1, r, "rom_name"), 1)
      a3 == Say(NeedAttr(a2, r, "use_bios"), 1)
      a4 == IF a3.exc # "none" THEN a3
            ELSE IF "reg" \notin DOMAIN r THEN Throw(a3, "AttributeError")
            ELSE IF Len(r["reg"]) = 0 THEN Throw(a3, "IndexError")     \* self.reg[0]
            ELSE Say(a3, 1)
      a5 == SayDict(a4, r, "save_game_struct", VBA_SGM_SAVE_GAME_STRUCT)
      a6 == Say(NeedAttr(a5, r, "stop_state"), 1)
      a7 == Say(NeedAttr(a6, r, "irq_tricks"), 1)
      a8 == Say(NeedAttr(a7, r, "int_state"), 1)
      a9 == Say(NeedAttr(Say(NeedAttr(Say(NeedAttr(Say(NeedAttr(Say(NeedAttr(Say(NeedAttr(
            Say(NeedAttr(a8, r, "iram"), 1), r, "pram"), 1), r, "wram"), 1), r, "vram"), 1),
            r, "oam"), 1), r, "pix"), 1), r, "iomem"), 1)
      a10 == SayDict(a9, r, "eeprom_save_data", VBA_EEPROM_SAVE_DATA_STRUCT)
      a11 == Say(NeedAttr(a10, r, "eeprom_size"), 1)
      a12 == IF a11.exc = "none" /\ r["save_game_version"] >= 3
               THEN Say(NeedAttr(a11, r, "eeprom_data"), 1) ELSE a11
      a13 == IF a12.exc # "none" THEN a12
             ELSE IF "flash_save_data" \notin DOMAIN r THEN Throw(a12, "AttributeError")
             ELSE Say(a12, 1 + Cardinality(DOMAIN r["flash_save_data"]))
      a14 == IF a13.exc # "none" THEN a13
             ELSE IF "cheats_list" \notin DOMAIN r THEN Throw(a13, "AttributeError")
             ELSE Say(a13, 1 + 8 * r["cheats_list"].alloc)
  IN  SayDict(a14, r, "rtc_clock_data", VBA_RTC_CLOCK_DATA_STRUCT)

\* ---------------------------------------------------------------- text
\* src/nrst/common.py:10-11
ASCII_MIN == 32
ASCII_MAX == 126

\* bytes_to_str with the upper bound exclusive: '~' (126) is dropped
bytes_to_str_DropsMax(b) ==
  LET keep(v) == ASCII_MIN <= v /\ v < ASCII_MAX
  IN  SelectSeq(b, keep)

\* gba.py:465, 516, 517  bytes([ord(c) for c in t] + [0]*(w-len(t))): the codes of
\* the characters, then w - len(t) zero bytes (none when t is longer than w);
\* bytes() raises ValueError on a code above 255
PadText(t, w) ==
  IF \E k \in 1..Len(t) : t[k] > 255 THEN [bytes |-> << >>, exc |-> "ValueError"]
  ELSE [bytes |-> IF Len(t) >= w THEN t ELSE t \o [i \in 1..(w - Len(t)) |-> 0],
        exc |-> "none"]

\* src/nrst/common.py:43-44  ''.join(chr(v) for v in data if ASCII_MIN <= v <= ASCII_MAX)
\* A str is the sequence of its code points; chr(v) is the character of code v.
bytes_to_str(b) ==
  LET keep(v) == ASCII_MIN <= v /\ v <= ASCII_MAX
  IN  SelectSeq(b, keep)

\* ---------------------------------------------------------------- inputs
Versions == -1 .. MaxVersion
Irqs == -MaxIrq .. MaxIrq
SmallCounts == -MaxCount .. MaxCount

\* The bytes __init__ walks over in a buffer of version v and stored count c
\* that is never short: the sum of the cursor increments of lines 348-454 (up
\* to line 415 for v <= 9, where line 416 raises).
Consumed(v, c) ==
  24 + StructSize(VBA_SGM_SAVE_GAME_STRUCT, Len(VBA_SGM_SAVE_GAME_STRUCT))
  + (IF v < 3 THEN 0 ELSE 4) + (IF v < 4 THEN 0 ELSE 4)
  + StructSize(RamBlobs, Len(RamBlobs))
  + StructSize(VBA_EEPROM_SAVE_DATA_STRUCT, Len(VBA_EEPROM_SAVE_DATA_STRUCT))
  + (IF v < 3 THEN 0 ELSE 4 + SIZE.EEPROM_8K)
  + StructSize(FlashStruct(v), Len(FlashStruct(v)))
  + (IF v > 9
       THEN StructSize(VBA_GBA_STATE_STRUCT, Len(VBA_GBA_STATE_STRUCT))
            + 4 + Max(0, ClampCount(c)) * StructSize(CheatShape(v), Len(CheatShape(v)))
            + PadSkip(v, ClampCount(c))
            + StructSize(VBA_RTC_CLOCK_DATA_STRUCT, Len(VBA_RTC_CLOCK_DATA_STRUCT))
       ELSE StructSize(VBA_OLD_GBA_STATE_STRUCT, Len(VBA_OLD_GBA_STATE_STRUCT)) + 5880)

\* the (name, width) column pairs of a table
Rows(struct) == [k \in 1..Len(struct) |-> [n |-> struct[k].n, s |-> struct[k].s]]

\* The fields __init__ reads from a buffer of version v holding c cheats that is
\* never short, in reading order, each with the bytes the cursor advances over
\* it (lines 348-454; up to line 415 for v <= 9, where line 416 raises).  The 45
\* register reads do not advance the cursor (lines 352-353).
Layout(v, c) ==
  LET shape == Rows(CheatShape(v))
  IN  << [n |-> "save_game_version", s |-> 4], [n |-> "rom_name", s |-> 16],
         [n |-> "use_bios", s |-> 4] >>
      \o [k \in 1..45 |-> [n |-> "reg", s |-> 0]]
      \o Rows(VBA_SGM_SAVE_GAME_STRUCT)
      \o (IF v < 3 THEN << >> ELSE << [n |-> "stop_state", s |-> 4] >>)
      \o (IF v < 4 THEN << >> ELSE << [n |-> "irq_tricks", s |-> 4] >>)
      \o Rows(RamBlobs)
      \o Rows(VBA_EEPROM_SAVE_DATA_STRUCT)
      \o (IF v < 3 THEN << >>
                   ELSE << [n |-> "eeprom_size", s |-> 4],
                           [n |-> "eeprom_data", s |-> SIZE.EEPROM_8K] >>)
      \o Rows(FlashStruct(v))
      \o (IF v > 9
            THEN Rows(VBA_GBA_STATE_STRUCT)
                 \o << [n |-> "num_cheats", s |-> 4] >>
                 \o [k \in 1..(Max(0, c) * Len(shape)) |-> shape[((k - 1) % Len(shape)) + 1]]
                 \o << [n |-> "padding", s |-> PadSkip(v, c)] >>
                 \o Rows(VBA_RTC_CLOCK_DATA_STRUCT)
            ELSE Rows(VBA_OLD_GBA_STATE_STRUCT) \o << [n |-> "skip", s |-> 5880] >>)

Buffer(l, v, q, c) == [len |-> l, version |-> v, irq_tricks |-> q, num_cheats |-> c]

\* The buffers handed to __init__, by length and stored integers.  Lengths: cut
\* in the version, in the header, in the RAM blobs; and, around the bytes the
\* decoder walks, cut before the last block, one byte short, exact, and with
\* room left.  A stored count above the capacity is tried with one stored
\* irq_tricks and with the two lengths that let the loop run.
Buffers ==
  { Buffer(l, b[1], b[2], b[3]) :
      b \in { x \in Versions \X Irqs \X SmallCounts : TRUE }, l \in {0, 3, 24, 1000} }
  \cup UNION { { Buffer(Consumed(v, c) + k, v, q, c) : k \in {-46, -1, 0, 180} } :
                 v \in Versions, q \in Irqs, c \in SmallCounts }
  \cup UNION { { Buffer(Consumed(v, VBA_MAX_CHEATS + 1) + k, v, MaxIrq, VBA_MAX_CHEATS + 1) :
                 k \in {-1, 0} } : v \in Versions }

NoData == Buffer(0, 0, 0, 0)

\* values of a constructed record: a bytes object of s bytes, a packable value
Blob(s) == [kind |-> "bytes", lo |-> 0, hi |-> s]
Val(f) == [kind |-> "val", fmt |-> f, at |-> 0]
Text(chars) == [kind |-> "lit", chars |-> chars]

\* the dict of a table, every value of its declared width
DictOf(struct) ==
  [n \in {struct[k].n : k \in 1..Len(struct)} |->
     LET e == CHOOSE e \in {struct[k] : k \in 1..Len(struct)} : e.n = n
     IN  IF e.f = "None" THEN Blob(e.s) ELSE IF e.f = "str" THEN Text(<< >>) ELSE Val(e.f)]

\* The attributes a record holds when captured at version v (the attributes
\* lines 348-454 set for v), with n cheats, irq_tricks q and title nm.
RecordAt(v, n, q, nm) ==
  LET base ==
        [x \in {"save_game_version", "rom_name", "use_bios", "reg", "save_game_struct",
                "stop_state", "irq_tricks", "int_state", "iram", "pram", "wram", "vram",
                "oam", "pix", "iomem", "eeprom_save_data", "eeprom_size",
                "flash_save_data"} |->
           CASE x = "save_game_version" -> v
             [] x = "rom_name" -> Text(nm)
             [] x = "use_bios" -> Val("<i")
             [] x = "reg" -> [k \in 1..45 |-> Blob(4)]
             [] x = "save_game_struct" -> DictOf(VBA_SGM_SAVE_GAME_STRUCT)
             [] x = "stop_state" -> IF v < 3 THEN FALSE ELSE Val("<i")
             [] x = "irq_tricks" -> IF v < 4 THEN 0 ELSE q
             [] x = "int_state" -> IF v < 4 THEN FALSE ELSE q > 0
             [] x = "iram" -> Blob(SIZE.IRAM)
             [] x = "pram" -> Blob(SIZE.PRAM)
             [] x = "wram" -> Blob(SIZE.WRAM)
             [] x = "vram" -> Blob(SIZE.VRAM)
             [] x = "oam" -> Blob(SIZE.OAM)
             [] x = "pix" -> Blob(SIZE.PIX)
             [] x = "iomem" -> Blob(SIZE.IOMEM)
             [] x = "eeprom_save_data" -> DictOf(VBA_EEPROM_SAVE_DATA_STRUCT)
             [] x = "eeprom_size" -> IF v < 3 THEN SIZE.EEPROM_512 ELSE Val("<i")
             [] x = "flash_save_data" -> DictOf(FlashStruct(v))]
      r1 == IF v < 3 THEN base ELSE Set(base, "eeprom_data", Blob(SIZE.EEPROM_8K))
      r2 == IF v > 9 THEN Set(r1, "gba_state", DictOf(VBA_GBA_STATE_STRUCT))
                     ELSE Set(r1, "old_gba_state", DictOf(VBA_OLD_GBA_STATE_STRUCT))
      r3 == IF v > 1
              THEN Set(r2, "cheats_list",
                       [alloc |-> n, filled |-> n,
                        entry |-> IF n = 0 THEN Empty ELSE DictOf(VBA_CHEATS_DATA_STRUCT)])
              ELSE r2
  IN  IF v > 6 THEN Set(r3, "rtc_clock_data", DictOf(VBA_RTC_CLOCK_DATA_STRUCT)) ELSE r3

\* titles of the constructed records (character codes)
RomNames == { << >>, <<71, 66, 65>> }

\* the records save is called on: up to MaxCount cheats, or a list at or one
\* over the capacity
Records ==
  { RecordAt(v, n, q, nm) :
      v \in Versions, n \in (0 .. MaxCount) \cup {VBA_MAX_CHEATS, VBA_MAX_CHEATS + 1},
      q \in 0 .. MaxIrq, nm \in RomNames }

NoOut == [chunks |-> << >>, exc |-> "none"]
NoSummary == [lines |-> 0, exc |-> "none"]

\* The fixed-width text fields __init__ decodes: the title (line 349, at offset
\* 4 of the buffer) and the two texts of a cheat entry (lines 443-444, at
\* offsets 29 and 49 of an entry of version >= 9).
TextFields ==
  { [n |-> "rom_name", w |-> 16, at |-> 4],
    [n |-> "codestring", w |-> 20, at |-> 29],
    [n |-> "desc", w |-> 32, at |-> 49] }

\* byte values around the two limits of bytes_to_str, and the ends of the range
ByteSample == {0, 31, 32, 65, 126, 127, 255}

\* data[ind:ind+w] for a field of width w: up to MaxText sampled bytes, followed
\* by zero bytes up to the width, or by nothing when the buffer ends there
FieldBytes(w) ==
  LET heads == UNION { [1..k -> ByteSample] : k \in 0..MaxText }
  IN  heads \cup { h \o [i \in 1..(w - Len(h)) |-> 0] : h \in heads }

NoField == [n |-> "none", w |-> 0, at |-> 0, bytes |-> << >>]

\* character codes of the strings handed to the encoder: printable ASCII, the
\* last code a byte holds, and the first it does not
CharSample == {32, 65, 126, 255, 256}

\* the strings an attribute of width w can hold: up to MaxText sampled
\* characters, alone or followed by 'A's up to the width or one past it
Strings(w) ==
  LET heads == UNION { [1..k -> CharSample] : k \in 0..MaxText }
  IN  heads \cup { h \o [i \in 1..(l - Len(h)) |-> 65] : h \in heads, l \in {w, w + 1} }

\* save is not running: no arguments, nothing at the path; no ROM is loaded
NoDest == [filename |-> << >>, overwrite |-> FALSE]
NoPath == [kind |-> "none", content |-> "none", opened |-> FALSE]
NoGB == [data |-> << >>, i |-> 0, checksum |-> 0, result |-> -1]

\* ---------------------------------------------------------------- actions
Init ==
  /\ task \in {"decode", "encode"}
  /\ IF task = "decode"
       THEN data \in Buffers /\ rec = Empty /\ pc = "version"
       ELSE data = NoData /\ rec \in Records /\ pc = "save"
  /\ ind = 0
  /\ self = Empty
  /\ exc = "none"
  /\ num_cheats = 0
  /\ cheat_i = 0
  /\ cheats_at = -1
  /\ out = NoOut
  /\ summary = NoSummary
  /\ field = NoField
  /\ text = << >>
  /\ dest = NoDest
  /\ fs = NoPath
  /\ gb = NoGB

\* one statement group of __init__ with result r, followed by `next`
Do(label, r, next) ==
  /\ pc = label
  /\ exc = "none"
  /\ ind' = r.ind
  /\ self' = r.self
  /\ exc' = r.exc
  /\ pc' = IF r.exc = "none" THEN next ELSE pc
  /\ UNCHANGED <<dest, fs, gb, summary, field, text, task, data, num_cheats, cheat_i, cheats_at, rec, out>>

DecVersion == Do("version", ReadVersion(data, ind, self), "rom_name")
DecRomName == Do("rom_name", ReadRomName(data, ind, self), "use_bios")
DecUseBios == Do("use_bios", ReadUseBios(data, ind, self), "reg")
DecReg == Do("reg", ReadReg(data, ind, self), "save_game_struct")
DecSaveGameStruct == Do("save_game_struct", ReadSaveGameStruct(data, ind, self), "stop_state")
DecStopState == Do("stop_state", ReadStopState(data, ind, self), "irq_tricks")
DecIrqTricks == Do("irq_tricks", ReadIrqTricks(data, ind, self), "ram")
DecRam == Do("ram", ReadRam(data, ind, self), "eeprom_save_data")
DecEepromSaveData == Do("eeprom_save_data", ReadEepromSaveData(data, ind, self), "eeprom")
DecEeprom == Do("eeprom", ReadEeprom(data, ind, self), "flash")
DecFlash == Do("flash", ReadFlash(data, ind, self), "sound")
DecSound == Do("sound", ReadSound(data, ind, self), "cheats")

\* gba.py:424-426  the gate of the cheat section and the count
DecCheatCount ==
  /\ pc = "cheats"
  /\ exc = "none"
  /\ cheats_at' = ind
  /\ IF self["save_game_version"] > 1
       THEN IF Short(data, ind, 4)
              THEN /\ exc' = "struct.error"
                   /\ UNCHANGED <<pc, ind, self, num_cheats, cheat_i>>
              ELSE /\ num_cheats' = ClampCount(data.num_cheats)
                   /\ ind' = ind + 4
                   /\ self' = Set(self, "cheats_list", NewList(ClampCount(data.num_cheats)))
                   /\ cheat_i' = 0
                   /\ pc' = "cheat"
                   /\ exc' = exc
       ELSE /\ pc' = "rtc"
            /\ UNCHANGED <<ind, self, exc, num_cheats, cheat_i>>
  /\ UNCHANGED <<dest, fs, gb, summary, field, text, task, data, rec, out>>

\* gba.py:427-445  one pass of `for i in range(num_cheats)`
DecCheat ==
  /\ pc = "cheat"
  /\ exc = "none"
  /\ cheat_i < num_cheats
  /\ LET r == ReadCheat(data, ind, self["save_game_version"]) IN
       /\ ind' = r.ind
       /\ exc' = r.exc
       /\ IF r.exc = "none"
            THEN /\ self' = Set(self, "cheats_list",
                                [self["cheats_list"] EXCEPT !.filled = cheat_i + 1, !.entry = r.cheat])
                 /\ cheat_i' = cheat_i + 1
            ELSE UNCHANGED <<self, cheat_i>>
  /\ UNCHANGED <<dest, fs, gb, summary, field, text, task, data, pc, num_cheats, cheats_at, rec, out>>

\* gba.py:446-447  the loop is over: the padding of versions >= 9
DecCheatPad ==
  /\ pc = "cheat"
  /\ exc = "none"
  /\ cheat_i >= num_cheats
  /\ ind' = ind + PadSkip(self["save_game_version"], num_cheats)
  /\ pc' = "rtc"
  /\ UNCHANGED <<dest, fs, gb, summary, field, text, task, data, self, exc, num_cheats, cheat_i, cheats_at, rec, out>>

DecRtc == Do("rtc", ReadRtc(data, ind, self), "exit")

\* gba.py:455  print(len(data)); print(ind); exit()
DecExit ==
  /\ pc = "exit"
  /\ exc = "none"
  /\ exc' = "SystemExit"
  /\ UNCHANGED <<dest, fs, gb, summary, field, text, task, data, pc, ind, self, num_cheats, cheat_i, cheats_at, rec, out>>

\* a save that pads the title of the record in place before it writes it
Save_PadsInPlace ==
  /\ pc = "save"
  /\ out' = SaveOp(rec)
  /\ pc' = "saved"
  /\ rec' = Set(rec, "rom_name", Text(PadText(rec["rom_name"].chars, 16).bytes))
  /\ UNCHANGED <<dest, fs, gb, summary, field, text, task, data, ind, self, exc, num_cheats, cheat_i, cheats_at>>

\* gba.py:458-525  save(filename) on rec, the destination acceptable
Save ==
  /\ pc = "save"
  /\ out' = SaveOp(rec)
  /\ pc' = "saved"
  /\ UNCHANGED <<dest, fs, gb, summary, field, text, task, data, ind, self, exc, num_cheats, cheat_i, cheats_at, rec>>

\* VBA_SGM(filename) on the file a completed save wrote.  The version is the
\* integer save wrote at offset 0; the integers the decoder will read as
\* irq_tricks and as the cheat count are bytes of the record's other fields,
\* whose content the record does not fix here.
Reopen ==
  /\ pc = "saved"
  /\ out.exc = "none"
  /\ \E q \in Irqs, c \in SmallCounts :
       data' = Buffer(Written(out), rec["save_game_version"], q, c)
  /\ pc' = "version"
  /\ UNCHANGED <<dest, fs, gb, summary, field, text, task, ind, self, exc, num_cheats, cheat_i, cheats_at, rec, out>>

\* gba.py:528-577  show_summary() on rec, before or after save
ShowSummary ==
  /\ pc \in {"save", "saved"}
  /\ summary = NoSummary
  /\ summary' = ShowSummaryOp(rec)
  /\ UNCHANGED <<dest, fs, gb, task, data, pc, ind, self, exc, num_cheats, cheat_i, cheats_at, rec, out,
                 field, text>>

Next ==
  \/ DecVersion \/ DecRomName \/ DecUseBios \/ DecReg \/ DecSaveGameStruct
  \/ DecStopState \/ DecIrqTricks \/ DecRam \/ DecEepromSaveData \/ DecEeprom
  \/ DecFlash \/ DecSound \/ DecCheatCount \/ DecCheat \/ DecCheatPad \/ DecRtc
  \/ DecExit \/ Save \/ Reopen \/ ShowSummary

Spec == Init /\ [][Next]_vars

\* ---------------------------------------------------------------- SpecText
\* The decoding of one fixed-width text field, on the bytes of the field, and
\* the encoding of one, on the characters of the string.
InitText ==
  /\ task \in {"text", "str"}
  /\ IF task = "text"
       THEN /\ \E f \in TextFields : \E b \in FieldBytes(f.w) :
                 field = [n |-> f.n, w |-> f.w, at |-> f.at, bytes |-> b]
            /\ text = << >>
       ELSE /\ \E f \in TextFields :
                 /\ field = [n |-> f.n, w |-> f.w, at |-> f.at, bytes |-> << >>]
                 /\ text \in Strings(f.w)
  /\ ind = field.at
  /\ pc = task
  /\ dest = NoDest
  /\ fs = NoPath
  /\ gb = NoGB
  /\ data = NoData
  /\ self = Empty
  /\ exc = "none"
  /\ num_cheats = 0
  /\ cheat_i = 0
  /\ cheats_at = -1
  /\ rec = Empty
  /\ out = NoOut
  /\ summary = NoSummary

\* x = common.bytes_to_str(data[ind:ind+w]); ind += w   for the field named n
DecodeText(n) ==
  /\ pc = "text"
  /\ field.n = n
  /\ text' = bytes_to_str(field.bytes)
  /\ ind' = ind + field.w
  /\ pc' = "text_done"
  /\ UNCHANGED <<dest, fs, gb, task, data, self, exc, num_cheats, cheat_i, cheats_at, rec, out,
                 summary, field>>

TextRomName == DecodeText("rom_name")       \* gba.py:349
TextCodestring == DecodeText("codestring")  \* gba.py:443
TextDesc == DecodeText("desc")              \* gba.py:444

\* out.write(bytes([ord(c) for c in x] + [0]*(w-len(x))))   for the field named n
EncodeText(n) ==
  /\ pc = "str"
  /\ field.n = n
  /\ LET r == PadText(text, field.w) IN
       /\ field' = [field EXCEPT !.bytes = r.bytes]
       /\ exc' = r.exc
  /\ pc' = "str_done"
  /\ UNCHANGED <<dest, fs, gb, task, data, ind, self, num_cheats, cheat_i, cheats_at, rec, out,
                 summary, text>>

StrRomName == EncodeText("rom_name")       \* gba.py:465
StrCodestring == EncodeText("codestring")  \* gba.py:516
StrDesc == EncodeText("desc")              \* gba.py:517

NextText ==
  \/ TextRomName \/ TextCodestring \/ TextDesc
  \/ StrRomName \/ StrCodestring \/ StrDesc

SpecText == InitText /\ [][NextText]_vars

\* ---------------------------------------------------------------- SpecDest
\* The destination checks of save (gba.py:458-463), on the characters of the
\* file name and on what the path holds: nothing, a file with old content, or a
\* directory.

\* str.lower() on character codes: 'A'..'Z' become 'a'..'z'
lower(s) == [k \in 1..Len(s) |-> IF 65 <= s[k] /\ s[k] <= 90 THEN s[k] + 32 ELSE s[k]]

\* str.endswith(suffix)
endswith(s, suffix) ==
  /\ Len(s) >= Len(suffix)
  /\ SubSeq(s, Len(s) - Len(suffix) + 1, Len(s)) = suffix

\* the literal '.sgm' of line 459
DotSgm == <<46, 115, 103, 109>>

\* os.path.isfile / os.path.isdir on the path
isfile(p) == p.kind = "file"
isdir(p) == p.kind = "dir"

\* the test of line 461 that looks at files only
Exists_FileOnly(p) == isfile(p)

\* gba.py:461  isfile(filename) or isdir(filename)
Exists(p) == isfile(p) \/ isdir(p)

\* file names handed to save: 'a.sgm', 'A.SGM', 'a.Sgm', '.sgm', 'a.sav',
\* 'sgm', 'asgm', 'a.sgm.gz', 'a.sg' and the empty name
FileNames ==
  { <<97, 46, 115, 103, 109>>, <<65, 46, 83, 71, 77>>, <<97, 46, 83, 103, 109>>,
    <<46, 115, 103, 109>>, <<97, 46, 115, 97, 118>>, <<115, 103, 109>>,
    <<97, 115, 103, 109>>, <<97, 46, 115, 103, 109, 46, 103, 122>>,
    <<97, 46, 115, 103>>, << >> }

\* what the path holds before the call
Paths ==
  { NoPath, [kind |-> "file", content |-> "old", opened |-> FALSE],
    [kind |-> "dir", content |-> "none", opened |-> FALSE] }

\* the records save is called on here: no title, irq_tricks 0
DestRecords == { r \in Records : r["rom_name"] = Text(<< >>) /\ r["irq_tricks"] = 0 }

InitDest ==
  /\ task = "dest"
  /\ pc = "save"
  /\ rec \in DestRecords
  /\ dest \in [filename : FileNames, overwrite : BOOLEAN]
  /\ fs \in Paths
  /\ out = NoOut
  /\ data = NoData
  /\ ind = 0
  /\ self = Empty
  /\ exc = "none"
  /\ num_cheats = 0
  /\ cheat_i = 0
  /\ cheats_at = -1
  /\ summary = NoSummary
  /\ field = NoField
  /\ text = << >>
  /\ gb = NoGB

\* gba.py:459-460  the name does not end in '.sgm': ValueError
SaveRejectName ==
  /\ pc = "save"
  /\ ~endswith(lower(dest.filename), DotSgm)
  /\ out' = Throw(NoOut, "ValueError")
  /\ pc' = "raised"
  /\ UNCHANGED <<dest, fs, gb, summary, field, text, task, data, ind, self, exc, num_cheats, cheat_i, cheats_at, rec>>

\* gba.py:461-462  the path exists and overwrite is false: ValueError
SaveRejectExists ==
  /\ pc = "save"
  /\ endswith(lower(dest.filename), DotSgm)
  /\ Exists(fs) /\ ~dest.overwrite
  /\ out' = Throw(NoOut, "ValueError")
  /\ pc' = "raised"
  /\ UNCHANGED <<dest, fs, gb, summary, field, text, task, data, ind, self, exc, num_cheats, cheat_i, cheats_at, rec>>

\* gba.py:463-525  gopen(filename, 'wb') and the writes.  Opening a directory
\* raises IsADirectoryError and opens nothing.  Otherwise the file is created
\* or truncated, and holds what save wrote: all of it, or the part written
\* before an exception.
SaveOpen ==
  /\ pc = "save"
  /\ endswith(lower(dest.filename), DotSgm)
  /\ ~(Exists(fs) /\ ~dest.overwrite)
  /\ IF isdir(fs)
       THEN /\ out' = Throw(NoOut, "IsADirectoryError")
            /\ fs' = fs
            /\ pc' = "raised"
       ELSE /\ out' = SaveOp(rec)
            /\ fs' = [kind |-> "file", opened |-> TRUE,
                      content |-> IF SaveOp(rec).exc = "none" THEN "new" ELSE "partial"]
            /\ pc' = IF SaveOp(rec).exc = "none" THEN "saved" ELSE "raised"
  /\ UNCHANGED <<dest, gb, summary, field, text, task, data, ind, self, exc, num_cheats, cheat_i, cheats_at, rec>>

NextDest == SaveRejectName \/ SaveRejectExists \/ SaveOpen

SpecDest == InitDest /\ [][NextDest]_vars

\* ---------------------------------------------------------------- SpecGB
\* GB.calc_header_checksum (rom/gb.py:405-412) on the header bytes of a loaded
\* ROM: data[0x0134 .. 0x014D], the last being the stored checksum byte.

\* 0x0134 and 0x014D, the ends of range(0x0134, 0x014D)
HeaderFirst == 308
HeaderEnd == 333

\* byte values of the header: the ends of the range, and values in between
HeaderByteSample == {0, 1, 127, 231, 255}

\* The headers tried: the first MaxHeaderFree bytes drawn freely, the others
\* all 0 or all 255, and a stored checksum byte.
Headers ==
  { [i \in HeaderFirst..HeaderEnd |->
       IF i < HeaderFirst + MaxHeaderFree THEN h[i - HeaderFirst + 1]
       ELSE IF i < HeaderEnd THEN f ELSE c] :
      h \in [1..MaxHeaderFree -> HeaderByteSample], f \in {0, 255}, c \in {0, 231} }

\* gb.py:410-411  while checksum < 0: checksum += 256
RECURSIVE Normalise(_)
Normalise(c) == IF c < 0 THEN Normalise(c + 256) ELSE c

\* the loop body without the + 1
ChecksumBody_NoPlusOne(c, b) == Normalise(c - b)

\* gb.py:409-411  the body of the loop for byte b
ChecksumBody(c, b) == Normalise(c - (b + 1))

\* gb.py:403  get_header_checksum
get_header_checksum(d) == d[HeaderEnd]

InitGB ==
  /\ task = "gb"
  /\ pc = "gb_loop"
  /\ gb \in { [data |-> d, i |-> HeaderFirst, checksum |-> 256, result |-> -1] : d \in Headers }
  /\ dest = NoDest
  /\ fs = NoPath
  /\ rec = Empty
  /\ out = NoOut
  /\ data = NoData
  /\ ind = 0
  /\ self = Empty
  /\ exc = "none"
  /\ num_cheats = 0
  /\ cheat_i = 0
  /\ cheats_at = -1
  /\ summary = NoSummary
  /\ field = NoField
  /\ text = << >>

\* gb.py:408-411  one pass of `for i in range(0x0134, 0x014D)`
ChecksumStep ==
  /\ pc = "gb_loop"
  /\ gb.i < HeaderEnd
  /\ gb' = [gb EXCEPT !.checksum = ChecksumBody(gb.checksum, gb.data[gb.i]), !.i = gb.i + 1]
  /\ UNCHANGED <<dest, fs, summary, field, text, task, data, pc, ind, self, exc, num_cheats, cheat_i, cheats_at, rec, out>>

\* gb.py:412  return checksum
ChecksumReturn ==
  /\ pc = "gb_loop"
  /\ gb.i >= HeaderEnd
  /\ gb' = [gb EXCEPT !.result = gb.checksum]
  /\ pc' = "gb_done"
  /\ UNCHANGED <<dest, fs, summary, field, text, task, data, ind, self, exc, num_cheats, cheat_i, cheats_at, rec, out>>

NextGB == ChecksumStep \/ ChecksumReturn

SpecGB == InitGB /\ [][NextGB]_vars

\* ---------------------------------------------------------------- claims
\* __init__ handed the object to its caller: no statement of __init__ leads
\* here (line 455 ends every run that gets that far).
Returned == pc = "return" /\ exc = "none"

\* a run that has nothing left to do
Finished == exc # "none" \/ (pc = "saved" /\ out.exc # "none")

\* the error kinds of the design, as the exceptions that stand for them
TruncatedInput == {"struct.error"}
InvalidState == {"ValueError"}

HasCheats(r) == "cheats_list" \in DOMAIN r

\* C1: record round trip.  A record validly constructed at a version >= 1 (at
\* most 16384 cheats), encoded by save and decoded by __init__ from the bytes save
\* wrote, comes back: save and __init__ complete, the cursor stands at the
\* length of the encoded buffer, the version is the record's and the decoded
\* record equals the original.
C1_RecordRoundTrip ==
  (/\ task = "encode"
   /\ rec["save_game_version"] >= 1
   /\ HasCheats(rec) => rec["cheats_list"].alloc <= VBA_MAX_CHEATS
   /\ Finished)
  => /\ out.exc = "none"
     /\ Returned
     /\ ind = Written(out)
     /\ self["save_game_version"] = rec["save_game_version"]
     /\ self = rec

\* C2: byte round trip.  When __init__ has decoded every field of a buffer
\* that ends where the decoding ends (its stored cheat count within the
\* capacity), the record comes back to the caller and save on it writes the
\* buffer again: no exception, and as many bytes.
C2_ByteRoundTrip ==
  (/\ task = "decode" /\ pc = "exit" /\ ind = data.len
   /\ data.num_cheats \in 0..VBA_MAX_CHEATS)
  => /\ exc = "none"
     /\ SaveOp(self).exc = "none"
     /\ Written(SaveOp(self)) = data.len

\* C3: length invariant.  The bytes the decoder advanced over a whole save
\* state of version V (its stored cheat count within the capacity) equal the bytes the encoder writes for a record captured
\* at V with as many cheats.
C3_LengthInvariant ==
  (task = "decode" /\ pc = "exit" /\ data.num_cheats \in 0..VBA_MAX_CHEATS)
  => LET o == SaveOp(RecordAt(self["save_game_version"], self["cheats_list"].alloc,
                              self["irq_tricks"], << >>))
     IN  o.exc = "none" /\ Written(o) = ind

\* C4: derived-field law.  Once __init__ has set the pair, irq_tricks > 0
\* exactly when int_state is true; and when the stored value is <= 0, or the
\* version is below 4 and nothing is stored, irq_tricks is 0 and int_state is
\* false.
C4_DerivedField ==
  ("int_state" \in DOMAIN self \/ "irq_tricks" \in DOMAIN self)
  => /\ {"int_state", "irq_tricks"} \subseteq DOMAIN self
     /\ (self["irq_tricks"] > 0) <=> (self["int_state"] = TRUE)
     /\ (self["save_game_version"] < 4 \/ data.irq_tricks <= 0)
          => (self["irq_tricks"] = 0 /\ self["int_state"] = FALSE)

\* C4 witnesses: a stored negative irq_tricks at a version that stores it has
\* been normalised
C4_Witness ==
  /\ "int_state" \in DOMAIN self
  /\ self["save_game_version"] >= 4
  /\ data.irq_tricks < 0
  /\ self["irq_tricks"] = 0
  /\ self["int_state"] = FALSE

\* C5: capacity law on decode.  For every stored count, the count the loop
\* runs on and the length of the decoded list are both within 0 .. 16384.
C5_Capacity ==
  (pc \in {"cheat", "rtc", "exit"} /\ HasCheats(self))
  => /\ 0 <= num_cheats /\ num_cheats <= VBA_MAX_CHEATS
     /\ 0 <= self["cheats_list"].alloc /\ self["cheats_list"].alloc <= VBA_MAX_CHEATS

\* C6: capacity law on encode.  save on a record with more than 16384 cheats
\* fails with InvalidState, and no byte is written.
C6_EncodeCapacity ==
  (pc = "saved" /\ HasCheats(rec) /\ rec["cheats_list"].alloc > VBA_MAX_CHEATS)
  => (out.exc \in InvalidState /\ out.chunks = << >>)

\* C7: padding law.  Over the cheat section the cursor advances by
\* 4 + count * 81 + (16384 - count) * 81 at version >= 9 and by 4 + count * 80
\* below, count being the number of entries decoded.
C7_Padding ==
  (pc = "rtc" /\ exc = "none" /\ HasCheats(self))
  => LET v == self["save_game_version"]
         n == self["cheats_list"].filled
     IN  ind - cheats_at
           = IF v >= 9 THEN 4 + n * 81 + (VBA_MAX_CHEATS - n) * 81 ELSE 4 + n * 80

\* the chunks save wrote for field n
ChunksOf(o, n) == { k \in 1..Len(o.chunks) : o.chunks[k].n = n }

\* C8: version-gated width.  The enabled field of a cheat entry takes 4 bytes
\* below version 9 and 1 byte from version 9 on: the decoder's cursor moves by
\* that much over it, and save writes that many bytes for it, once per cheat.
C8_EnabledWidth ==
  /\ (pc = "cheat" /\ exc = "none" /\ self["cheats_list"].filled > 0)
       => LET e == self["cheats_list"].entry
              v == self["save_game_version"]
          IN  (IF v >= 9 THEN e["rawaddress"].at ELSE e["address"].at) - e["enabled"].at
                = IF v < 9 THEN 4 ELSE 1
  /\ (pc = "saved" /\ HasCheats(rec) /\ rec["cheats_list"].alloc \in 1..VBA_MAX_CHEATS)
       => /\ Cardinality(ChunksOf(out, "enabled")) = rec["cheats_list"].alloc
          /\ \A k \in ChunksOf(out, "enabled") :
               out.chunks[k].s = IF rec["save_game_version"] < 9 THEN 4 ELSE 1

\* C9: rawaddress is stored exactly from version 9 on.  The decoder reads 4
\* bytes for it between enabled and address at version >= 9 (an entry is 81
\* bytes) and none below (80 bytes); save writes 4 bytes for it per cheat at
\* version >= 9 and none below.
C9_RawAddress ==
  /\ (pc = "cheat" /\ exc = "none" /\ self["cheats_list"].filled > 0)
       => LET e == self["cheats_list"].entry
              v == self["save_game_version"]
          IN  /\ ind - e["code"].at = IF v >= 9 THEN 81 ELSE 80
              /\ v >= 9 => /\ e["rawaddress"].at = e["enabled"].at + 1
                           /\ e["address"].at = e["rawaddress"].at + 4
              /\ v < 9 => e["rawaddress"] = e["address"]
  /\ (pc = "saved" /\ HasCheats(rec) /\ rec["cheats_list"].alloc \in 1..VBA_MAX_CHEATS)
       => /\ Cardinality(ChunksOf(out, "rawaddress"))
               = IF rec["save_game_version"] >= 9 THEN rec["cheats_list"].alloc ELSE 0
          /\ \A k \in ChunksOf(out, "rawaddress") : out.chunks[k].s = 4

\* the bytes attributes the object holds
Blobs(s) == { a \in DOMAIN s : a \in {"iram", "pram", "wram", "vram", "oam", "pix", "iomem",
                                      "eeprom_data"} }

\* the declared width of a bytes attribute
BlobWidth(a) ==
  CASE a = "iram" -> SIZE.IRAM [] a = "pram" -> SIZE.PRAM [] a = "wram" -> SIZE.WRAM
    [] a = "vram" -> SIZE.VRAM [] a = "oam" -> SIZE.OAM [] a = "pix" -> SIZE.PIX
    [] a = "iomem" -> SIZE.IOMEM [] a = "eeprom_data" -> SIZE.EEPROM_8K

\* C10: truncation.  Decoding a buffer of a version >= 1 cut strictly inside
\* the layout ends in
\* TruncatedInput and in nothing else; on the way the cursor never stands past
\* the end of the buffer and the object never holds a blob shorter than its
\* declared width.
C10_Truncation ==
  (/\ task = "decode" /\ data.version >= 1
   /\ data.len < Consumed(data.version, data.num_cheats))
  => /\ exc # "none" => exc \in TruncatedInput
     /\ ind <= data.len
     /\ \A a \in Blobs(self) : BytesLen(self[a]) = BlobWidth(a)

\* C11: decode is total.  A run of __init__ on a buffer of a version >= 1 ends
\* in one of two ways: the object is handed to the caller, or the buffer was
\* too short for its version and the run failed with TruncatedInput.  So a run
\* that has ended in an exception has ended in TruncatedInput, on a buffer
\* shorter than the layout.
C11_DecodeTotal ==
  (exc # "none" /\ data.version >= 1)
  => /\ exc \in TruncatedInput
     /\ data.len < Consumed(data.version, data.num_cheats)

\* the cheats a record holds (none when it has no list)
CheatsOf(r) == IF HasCheats(r) THEN r["cheats_list"].alloc ELSE 0

\* C12: decoder/encoder symmetry.  For a record captured at version V >= 1
\* (within the capacity), save completes and the sequence of fields it writes, by name,
\* order and width, is the sequence __init__ reads at V.
C12_Symmetry ==
  (pc = "saved" /\ rec["save_game_version"] >= 1 /\ CheatsOf(rec) <= VBA_MAX_CHEATS)
  => /\ out.exc = "none"
     /\ out.chunks = Layout(rec["save_game_version"], CheatsOf(rec))

\* gba.py:464-500  what save has written when it reaches the cheat section
BeforeCheats(r) ==
  LET v == r["save_game_version"]
  IN  WriteFlash(WriteEeprom(WriteRam(WriteGated(WriteHeader(r), r, v), r), r, v), r, v)

\* the cheat section of a record of version v with c cheats, as the design
\* states it: row k of 1 .. CheatSectionLen(v, c)
CheatSectionLen(v, c) == 1 + c * Len(CheatShape(v)) + (IF v >= 9 THEN 1 ELSE 0)

CheatSectionRow(v, c, k) ==
  LET shape == Rows(CheatShape(v))
  IN  IF k = 1 THEN [n |-> "num_cheats", s |-> 4]
      ELSE IF k <= 1 + c * Len(shape) THEN shape[((k - 2) % Len(shape)) + 1]
      ELSE [n |-> "padding", s |-> (VBA_MAX_CHEATS - c) * 81]

\* C13: the encoder's cheat section.  After the flash section save writes the
\* 4-byte count of the list, then every entry in the shape of the version, then
\* at version >= 9 (16384 - len) * 81 zero bytes.
C13_CheatSection ==
  (pc = "saved" /\ HasCheats(rec) /\ CheatsOf(rec) <= VBA_MAX_CHEATS)
  => LET v == rec["save_game_version"]
         c == CheatsOf(rec)
         pre == Len(BeforeCheats(rec).chunks)
     IN  /\ Len(out.chunks) >= pre + CheatSectionLen(v, c)
         /\ \A k \in 1..CheatSectionLen(v, c) : out.chunks[pre + k] = CheatSectionRow(v, c, k)

\* C14: the plan of save does not depend on the version field of the record.
\* save takes a file name and the overwrite flag; with these the same, records
\* that differ only in save_game_version (both versions >= 1) are written with
\* the same fields, in the same shape, and with the same outcome.
C14_VersionPinned ==
  (pc = "saved" /\ rec["save_game_version"] >= 1)
  => \A v \in 1..MaxVersion : SaveOp([rec EXCEPT !["save_game_version"] = v]) = out

\* C15: save is all-or-nothing.  When save on a record of a version >= 1 ends
\* in an exception, nothing has been written to the destination.
C15_AllOrNothing ==
  (pc = "saved" /\ rec["save_game_version"] >= 1 /\ out.exc # "none") => Written(out) = 0

\* C16: the register block.  In a buffer of a version >= 1, register slot i (0 <= i < 45) holds the bytes
\* [24 + 4i, 24 + 4i + 4) of the buffer, and DISPCNT, the first field after the
\* block, is read 180 bytes after offset 24.
C16_Registers ==
  data.version >= 1
  =>
  /\ ("reg" \in DOMAIN self /\ data.len >= 24 + 180)
       => \A i \in 0..44 :
            self["reg"][i + 1] = [kind |-> "bytes", lo |-> 24 + 4 * i, hi |-> 24 + 4 * i + 4]
  /\ ("save_game_struct" \in DOMAIN self /\ "DISPCNT" \in DOMAIN self["save_game_struct"])
       => self["save_game_struct"]["DISPCNT"].at = 24 + 180

\* the flash section of version v as the design states it
ExpectedFlash(v) ==
  IF v < 5
    THEN << [n |-> "flashState", s |-> 4], [n |-> "flashReadState", s |-> 4],
            [n |-> "flashSaveMemory", s |-> 65536] >>
  ELSE IF v < 7
    THEN << [n |-> "flashState", s |-> 4], [n |-> "flashReadState", s |-> 4],
            [n |-> "flashSize", s |-> 4], [n |-> "flashSaveMemory", s |-> 131072] >>
  ELSE << [n |-> "flashState", s |-> 4], [n |-> "flashReadState", s |-> 4],
          [n |-> "flashSize", s |-> 4], [n |-> "flashBank", s |-> 4],
          [n |-> "flashSaveMemory", s |-> 131072] >>

\* C17: the flash section is a function of the version alone, the same in
\* __init__ and in save.  Once __init__ has read the section, flash_save_data
\* holds exactly the fields of the version's shape, each read at the offset the
\* shape gives it, the memory blob of the shape's width when the buffer holds
\* it, and the cursor has advanced by the width of the shape; save writes for
\* the section exactly the fields of the shape, in order and width.
C17_FlashShape ==
  /\ ("flash_save_data" \in DOMAIN self /\ pc # "flash")
       => LET e == ExpectedFlash(self["save_game_version"])
              d == self["flash_save_data"]
              start == d["flashState"].at
              total == SumSizes(e, 1, Len(e))
          IN  /\ DOMAIN d = { e[k].n : k \in 1..Len(e) }
              /\ \A k \in 1..Len(e) :
                   LET off == start + SumSizes(e, 1, k - 1)
                   IN  IF d[e[k].n].kind = "val" THEN d[e[k].n].at = off
                       ELSE data.len >= start + total
                              => d[e[k].n] = [kind |-> "bytes", lo |-> off, hi |-> off + e[k].s]
              /\ (pc = "sound" /\ exc = "none") => ind = start + total
  /\ pc = "saved"
       => LET flash(c) == c.n \in {"flashState", "flashReadState", "flashSize", "flashBank",
                                   "flashSaveMemory"}
          IN  SelectSeq(out.chunks, flash) = ExpectedFlash(rec["save_game_version"])

\* C17 witness: __init__ has read the flash section of a version 5 buffer in
\* the 1M shape
C17_Witness ==
  /\ pc = "sound" /\ exc = "none"
  /\ self["save_game_version"] = 5
  /\ "flashSize" \in DOMAIN self["flash_save_data"]
  /\ BytesLen(self["flash_save_data"]["flashSaveMemory"]) = 131072

\* the version an object holds, if it holds one
VersionOf(r) == IF "save_game_version" \in DOMAIN r THEN << r["save_game_version"] >> ELSE << >>

\* C18: the version is read-only.  save_game_version is set by the step that
\* reads the 4 bytes at offset 0, to the integer stored there; once set, no
\* step of __init__ changes it, and no call of save or show_summary changes
\* the version of the object it is called on.
C18_VersionReadOnly ==
  [][ /\ VersionOf(self) # << >> => VersionOf(self') = VersionOf(self)
      /\ (VersionOf(self) = << >> /\ VersionOf(self') # << >>)
           => (ind = 0 /\ ind' = 4 /\ VersionOf(self') = << data.version >>)
      /\ VersionOf(rec') = VersionOf(rec) ]_vars

\* C18 witness: __init__ has run on a version 2 buffer up to the sound state,
\* past the step that stores stop_state, and the object still holds the version
\* read first
C18_Witness ==
  /\ pc = "sound" /\ exc = "NameError"
  /\ data.version = 2 /\ VersionOf(self) = << 2 >>

\* C19: absent fields.  When the version (>= 1) of the buffer gates a field
\* out, the step that would read it leaves the cursor where it is and stores
\* nothing under the field's name.
C19_AbsentField ==
  [][ data.version >= 1 =>
      /\ (pc = "stop_state" /\ pc' # pc /\ self["save_game_version"] < 3)
           => (ind' = ind /\ "stop_state" \notin DOMAIN self')
      /\ (pc = "irq_tricks" /\ pc' # pc /\ self["save_game_version"] < 4)
           => (ind' = ind /\ "irq_tricks" \notin DOMAIN self')
      /\ (pc = "eeprom" /\ pc' # pc /\ self["save_game_version"] < 3)
           => (ind' = ind /\ {"eeprom_size", "eeprom_data"} \cap DOMAIN self' = {})
      /\ (pc = "cheats" /\ pc' # pc /\ self["save_game_version"] <= 1)
           => (ind' = ind /\ ~HasCheats(self'))
      /\ (pc = "rtc" /\ pc' # pc /\ self["save_game_version"] <= 6)
           => (ind' = ind /\ "rtc_clock_data" \notin DOMAIN self') ]_vars

\* the positions of the bytes of b that are printable ASCII
Printable(b) == { i \in 1..Len(b) : 32 <= b[i] /\ b[i] <= 126 }

\* C20: decoding a fixed-width text field raises nothing, yields exactly the
\* bytes of value 32..126 of the field in their order (the k-th character is
\* the k-th such byte) and moves the cursor by the declared width.
C20_TextDecode ==
  pc = "text_done"
  => /\ exc = "none"
     /\ ind = field.at + field.w
     /\ Len(text) = Cardinality(Printable(field.bytes))
     /\ \A k \in 1..Len(text) :
          \E i \in Printable(field.bytes) :
            /\ Cardinality({ j \in Printable(field.bytes) : j <= i }) = k
            /\ text[k] = field.bytes[i]

\* C20 witness: a title of 16 bytes that begins 127, 126, 32 and is zero
\* filled has been decoded to "~ "
C20_Witness ==
  /\ pc = "text_done"
  /\ field.n = "rom_name" /\ Len(field.bytes) = 16
  /\ SubSeq(field.bytes, 1, 3) = << 127, 126, 32 >>
  /\ text = << 126, 32 >>

\* C21: encoding a fixed-width text field.  For every string of printable
\* ASCII characters the encoder emits exactly the declared width: the
\* characters of the string, then zero bytes up to the width.
C21_TextEncode ==
  (pc = "str_done" /\ \A k \in 1..Len(text) : 32 <= text[k] /\ text[k] <= 126)
  => /\ exc = "none"
     /\ Len(field.bytes) = field.w
     /\ \A k \in 1..Len(field.bytes) :
          field.bytes[k] = IF k <= Len(text) THEN text[k] ELSE 0

\* the attributes the known fields of the layout are decoded into
KnownFields ==
  {"save_game_version", "rom_name", "use_bios", "reg", "save_game_struct",
   "stop_state", "irq_tricks", "int_state", "iram", "pram", "wram", "vram",
   "oam", "pix", "iomem", "eeprom_save_data", "eeprom_size", "eeprom_data",
   "flash_save_data", "gba_state", "old_gba_state", "old_gba_state2",
   "cheats_list", "rtc_clock_data"}

\* C22: forward-compatibility fallback.  When the decoder has read the known
\* fields of a buffer whose version is beyond the last known one (10) and bytes
\* remain, the decode has succeeded, the record holds the remaining bytes as an
\* opaque blob, and save writes back as many bytes as the buffer had.  (Stored
\* cheat counts within the capacity.)
C22_ForwardCompat ==
  (pc = "exit" /\ data.version > 10 /\ data.num_cheats \in 0..VBA_MAX_CHEATS
     /\ ind < data.len)
  => /\ exc = "none"
     /\ \E a \in DOMAIN self \ KnownFields : self[a] = Slice(data, ind, data.len - ind)
     /\ SaveOp(self).exc = "none"
     /\ Written(SaveOp(self)) = data.len

\* the error kind of the design for a version that cannot be decoded
UnsupportedVersion == {"ValueError"}

\* C23: a negative version is refused.  Once the version has been read from
\* the first 4 bytes and is negative, the decode has failed with
\* UnsupportedVersion and no further field has been read.
C23_NegativeVersion ==
  (task = "decode" /\ VersionOf(self) # << >> /\ data.version < 0)
  => /\ exc \in UnsupportedVersion
     /\ DOMAIN self = {"save_game_version"}
     /\ ind = 4

\* C27: the padding skipped after the cheat entries.  At version >= 9, for
\* every stored count, the bytes the decoder skips after the entries number
\* between 0 and 16384 * 81, and the cheat section as a whole takes
\* 4 + 16384 * 81 bytes.
C27_PaddingRange ==
  (pc = "rtc" /\ exc = "none" /\ HasCheats(self) /\ self["save_game_version"] >= 9)
  => LET pad == ind - cheats_at - 4 - self["cheats_list"].filled * 81
     IN  /\ pad \in 0..(VBA_MAX_CHEATS * 81)
         /\ ind - cheats_at = 4 + VBA_MAX_CHEATS * 81

\* C24: the derived pair irq_tricks / int_state in the encoder.  save writes
\* no bytes for int_state.  Below version 4 it writes no bytes for irq_tricks
\* either.  At version >= 4, once save has reached the RAM blobs, it has
\* written irq_tricks exactly once, as the 4 bytes of the stored integer,
\* between stop_state and iram.
C24_StoredForm ==
  pc = "saved"
  => LET v == rec["save_game_version"]
     IN  /\ ChunksOf(out, "int_state") = {}
         /\ v < 4 => ChunksOf(out, "irq_tricks") = {}
         /\ (v >= 4 /\ ChunksOf(out, "iram") # {})
              => \E k \in 2..(Len(out.chunks) - 1) :
                   /\ ChunksOf(out, "irq_tricks") = {k}
                   /\ out.chunks[k].s = 4
                   /\ out.chunks[k - 1].n = "stop_state"
                   /\ out.chunks[k + 1].n = "iram"

\* C24 witness: save has run on a record of version >= 4 whose int_state is
\* true and has written the irq_tricks integer
C24_Witness ==
  /\ pc = "saved" /\ rec["save_game_version"] >= 4
  /\ rec["int_state"] = TRUE /\ rec["irq_tricks"] > 0
  /\ ChunksOf(out, "irq_tricks") # {}

\* C25: save leaves the record alone.  A call of save, completing or failing,
\* and a call of show_summary leave every field of the record they are called
\* on as it was; the record changes in no step.
C25_RecordFrame ==
  [][ /\ rec' = rec
      /\ (pc = "save" /\ pc' = "saved") => out' = SaveOp(rec') ]_vars

\* C25 witness: a save that failed in the cheat loop, on a record with a cheat
\* and a title of three characters, which the record still holds
C25_Witness ==
  /\ pc = "saved" /\ out.exc = "NameError"
  /\ CheatsOf(rec) > 0 /\ rec["rom_name"] = Text(<<71, 66, 65>>)

\* Once the sound section has been entered: the old layout (and with it the
\* undefined name of line 416) is taken exactly for versions <= k, the current
\* layout exactly for versions > k; a buffer that holds the old section ends in
\* NameError at the sound step, and NameError arises nowhere else.
OldSoundPath(k) ==
  LET old == "old_gba_state" \in DOMAIN self
      new == "gba_state" \in DOMAIN self
  IN  /\ (old \/ new) =>
           /\ old <=> self["save_game_version"] <= k
           /\ new <=> self["save_game_version"] > k
      /\ (old /\ exc \notin TruncatedInput) => (exc = "NameError" /\ pc = "sound")
      /\ exc = "NameError" => (old /\ ~new)

\* C26 as stated: the old sound-state path is taken exactly for versions <= 6;
\* versions >= 7 decode the sound section with the current layout and never
\* evaluate the undefined name.
C26_OldPathUpTo6 == OldSoundPath(6)

\* C26, amended: the old sound-state path is taken exactly for versions <= 9;
\* versions >= 10 decode the sound section with the current layout and never
\* evaluate the undefined name.
C26_OldPathUpTo9 == OldSoundPath(9)

\* C26 witness: a version 9 buffer that holds the old sound section has been
\* decoded into old_gba_state and the step ended in NameError
C26_Witness ==
  /\ pc = "sound" /\ exc = "NameError"
  /\ data.version = 9 /\ "old_gba_state" \in DOMAIN self /\ "gba_state" \notin DOMAIN self

\* C28: save rejects a bad destination before touching the file system.  When
\* the file name does not end in '.sgm' in any mix of cases (of the names
\* tried, only 'a.sgm', 'A.SGM', 'a.Sgm' and '.sgm' do), or the path holds a
\* file or a directory and overwrite is false, the call raises ValueError,
\* writes nothing, opens nothing and leaves the path as it was.
C28_BadDestination ==
  [][ ( /\ pc = "save" /\ pc' # "save"
        /\ \/ dest.filename \notin { <<97, 46, 115, 103, 109>>, <<65, 46, 83, 71, 77>>,
                                     <<97, 46, 83, 103, 109>>, <<46, 115, 103, 109>> }
           \/ (fs.kind \in {"file", "dir"} /\ ~dest.overwrite) )
      => /\ out'.exc = "ValueError"
         /\ out'.chunks = << >>
         /\ fs' = fs
         /\ ~fs'.opened ]_vars

\* C28 witness: save('a.sgm') without overwrite on a path that holds a file was
\* refused, and the file holds its old content
C28_Witness ==
  /\ task = "dest" /\ pc = "raised" /\ out.exc = "ValueError"
  /\ dest = [filename |-> <<97, 46, 115, 103, 109>>, overwrite |-> FALSE]
  /\ fs = [kind |-> "file", content |-> "old", opened |-> FALSE]

\* the sum of (byte + 1) over d[lo .. hi]
RECURSIVE SumPlusOne(_, _, _)
SumPlusOne(d, lo, hi) == IF lo > hi THEN 0 ELSE (d[lo] + 1) + SumPlusOne(d, lo + 1, hi)

\* C29: the header checksum.  For every content of the 25 bytes
\* 0x0134 .. 0x014C, calc_header_checksum returns a value in 0 .. 255, equal to
\* minus the sum of (byte + 1) over those bytes, modulo 256: a value the one
\* byte at 0x014D can hold, whatever that byte holds.
C29_HeaderChecksum ==
  pc = "gb_done"
  => LET sum == SumPlusOne(gb.data, 308, 332)
     IN  /\ gb.result \in 0..255
         /\ (gb.result + sum) % 256 = 0
         /\ get_header_checksum(gb.data) = gb.result
              <=> (gb.data[333] + sum) % 256 = 0

\* C29 witness: the checksum of a header whose first byte is 255 and whose
\* other bytes are 0 (the sum is 280) has been returned: 232
C29_Witness ==
  /\ pc = "gb_done"
  /\ gb.data[308] = 255 /\ \A i \in 309..332 : gb.data[i] = 0
  /\ gb.result = 232

=============================================================================
